---------------------------- MODULE Spec2Model ----------------------------
(***************************************************************************)
(* A state-machine model of the Discord AI agent: the MessageCreate        *)
(* dispatcher (server/bot/index.ts), the command registry                  *)
(* (bot/commands), the moderation classifier (bot/moderation), the NLP     *)
(* responder with its useOpenAI availability flag (bot/nlp), the           *)
(* conversation context manager (bot/context) and the in-memory store      *)
(* (storage.ts).                                                           *)
(*                                                                         *)
(* Scheduling.  The program runs on one JavaScript event loop.  A handler  *)
(* runs without interruption from the callback that resumes it up to its   *)
(* next await of real I/O (Discord REST, OpenAI, axios, the gateway login):*)
(* every MemStorage method is an async function over in-memory Maps, so    *)
(* awaiting it only yields to the microtask queue and no other handler's   *)
(* I/O callback can run in between.  One action of the model is therefore  *)
(* one such run: from an I/O completion to the next I/O request.           *)
(***************************************************************************)
EXTENDS Integers, Sequences, FiniteSets, TLC

(***************************************************************************)
(* Bounds of the model.                                                    *)
(***************************************************************************)
MaxMsgs == 2
MaxRunning == 1
MaxCalls == 1
MaxSettingsUpdates == 1
MaxContextOps == 4
MaxStarts == 2
MaxTasks == 2
MaxRequests == 2

(***************************************************************************)
(* Strings.  A TLA+ string is atomic for TLC, so Chars gives the sequence  *)
(* of characters of every string the model uses; the string operations of  *)
(* the code are computed on these sequences.                               *)
(***************************************************************************)
Chars(s) ==
  CASE
     s = "Hello" -> <<"H", "e", "l", "l", "o">>
  [] s = "what is rain" -> <<"w", "h", "a", "t", " ", "i", "s", " ", "r", "a", "i", "n">>
  [] s = "you are bad" -> <<"y", "o", "u", " ", "a", "r", "e", " ", "b", "a", "d">>
  [] s = "   " -> <<" ", " ", " ">>
  [] s = "xyz" -> <<"x", "y", "z">>
  [] s = "!weather paris" -> <<"!", "w", "e", "a", "t", "h", "e", "r", " ", "p", "a", "r", "i", "s">>
  [] s = "!weather" -> <<"!", "w", "e", "a", "t", "h", "e", "r">>
  [] s = "!Help" -> <<"!", "H", "e", "l", "p">>
  [] s = "!foo hi" -> <<"!", "f", "o", "o", " ", "h", "i">>
  [] s = "!remind 5 tea" -> <<"!", "r", "e", "m", "i", "n", "d", " ", "5", " ", "t", "e", "a">>
  [] s = "!remind 0 tea" -> <<"!", "r", "e", "m", "i", "n", "d", " ", "0", " ", "t", "e", "a">>
  [] s = "!remind 1441 tea" -> <<"!", "r", "e", "m", "i", "n", "d", " ", "1", "4", "4", "1", " ", "t", "e", "a">>
  [] s = "!remind x tea" -> <<"!", "r", "e", "m", "i", "n", "d", " ", "x", " ", "t", "e", "a">>
  [] s = "!remind 5" -> <<"!", "r", "e", "m", "i", "n", "d", " ", "5">>
  [] s = "hello" -> <<"h", "e", "l", "l", "o">>
  [] s = "hi" -> <<"h", "i">>
  [] s = "mock-key" -> <<"m", "o", "c", "k", "-", "k", "e", "y">>
  [] s = "sk-proj-abc" -> <<"s", "k", "-", "p", "r", "o", "j", "-", "a", "b", "c">>
  [] s = "sk-live-abc" -> <<"s", "k", "-", "l", "i", "v", "e", "-", "a", "b", "c">>
  [] s = "sk-proj-" -> <<"s", "k", "-", "p", "r", "o", "j", "-">>
  [] s = "tell me a joke" -> <<"t", "e", "l", "l", " ", "m", "e", " ", "a", " ", "j", "o", "k", "e">>
  [] s = "good great day" -> <<"g", "o", "o", "d", " ", "g", "r", "e", "a", "t", " ", "d", "a", "y">>
  [] s = "bad" -> <<"b", "a", "d">>
  [] s = "good bad" -> <<"g", "o", "o", "d", " ", "b", "a", "d">>
  [] s = "Error: 429 insufficient_quota" -> <<"E", "r", "r", "o", "r", ":", " ", "4", "2", "9", " ", "i", "n", "s", "u", "f", "f", "i", "c", "i", "e", "n", "t", "_", "q", "u", "o", "t", "a">>
  [] s = "Error: 429 rate limit reached" -> <<"E", "r", "r", "o", "r", ":", " ", "4", "2", "9", " ", "r", "a", "t", "e", " ", "l", "i", "m", "i", "t", " ", "r", "e", "a", "c", "h", "e", "d">>
  [] s = "Error: 503 service unavailable" -> <<"E", "r", "r", "o", "r", ":", " ", "5", "0", "3", " ", "s", "e", "r", "v", "i", "c", "e", " ", "u", "n", "a", "v", "a", "i", "l", "a", "b", "l", "e">>
  [] s = "insufficient_quota" -> <<"i", "n", "s", "u", "f", "f", "i", "c", "i", "e", "n", "t", "_", "q", "u", "o", "t", "a">>
  [] s = "rate limit" -> <<"r", "a", "t", "e", " ", "l", "i", "m", "i", "t">>
  [] s = "!" -> <<"!">>
  [] s = "SyntaxError: Unexpected token" -> <<"S", "y", "n", "t", "a", "x", "E", "r", "r", "o", "r", ":", " ", "U", "n", "e", "x", "p", "e", "c", "t", "e", "d", " ", "t", "o", "k", "e", "n">>
  [] s = "translate" -> <<"t", "r", "a", "n", "s", "l", "a", "t", "e">>
  [] s = "news" -> <<"n", "e", "w", "s">>
  [] s = "remind" -> <<"r", "e", "m", "i", "n", "d">>
  [] s = "stats" -> <<"s", "t", "a", "t", "s">>
  [] s = "help" -> <<"h", "e", "l", "p">>
  [] s = "command" -> <<"c", "o", "m", "m", "a", "n", "d">>
  [] s = "hi " -> <<"h", "i", " ">>
  [] s = "weather" -> <<"w", "e", "a", "t", "h", "e", "r">>
  [] s = "joke" -> <<"j", "o", "k", "e">>
  [] s = "funny" -> <<"f", "u", "n", "n", "y">>
  [] s = "thank" -> <<"t", "h", "a", "n", "k">>
  [] s = "discord" -> <<"d", "i", "s", "c", "o", "r", "d">>
  [] s = "bot" -> <<"b", "o", "t">>
  [] s = "ai" -> <<"a", "i">>
  [] s = "good" -> <<"g", "o", "o", "d">>
  [] s = "great" -> <<"g", "r", "e", "a", "t">>
  [] s = "amazing" -> <<"a", "m", "a", "z", "i", "n", "g">>
  [] s = "excellent" -> <<"e", "x", "c", "e", "l", "l", "e", "n", "t">>
  [] s = "wonderful" -> <<"w", "o", "n", "d", "e", "r", "f", "u", "l">>
  [] s = "fantastic" -> <<"f", "a", "n", "t", "a", "s", "t", "i", "c">>
  [] s = "awesome" -> <<"a", "w", "e", "s", "o", "m", "e">>
  [] s = "happy" -> <<"h", "a", "p", "p", "y">>
  [] s = "joy" -> <<"j", "o", "y">>
  [] s = "love" -> <<"l", "o", "v", "e">>
  [] s = "like" -> <<"l", "i", "k", "e">>
  [] s = "best" -> <<"b", "e", "s", "t">>
  [] s = "thanks" -> <<"t", "h", "a", "n", "k", "s">>
  [] s = "appreciate" -> <<"a", "p", "p", "r", "e", "c", "i", "a", "t", "e">>
  [] s = "perfect" -> <<"p", "e", "r", "f", "e", "c", "t">>
  [] s = "brilliant" -> <<"b", "r", "i", "l", "l", "i", "a", "n", "t">>
  [] s = "outstanding" -> <<"o", "u", "t", "s", "t", "a", "n", "d", "i", "n", "g">>
  [] s = "terrible" -> <<"t", "e", "r", "r", "i", "b", "l", "e">>
  [] s = "awful" -> <<"a", "w", "f", "u", "l">>
  [] s = "horrible" -> <<"h", "o", "r", "r", "i", "b", "l", "e">>
  [] s = "worst" -> <<"w", "o", "r", "s", "t">>
  [] s = "hate" -> <<"h", "a", "t", "e">>
  [] s = "dislike" -> <<"d", "i", "s", "l", "i", "k", "e">>
  [] s = "sad" -> <<"s", "a", "d">>
  [] s = "angry" -> <<"a", "n", "g", "r", "y">>
  [] s = "annoyed" -> <<"a", "n", "n", "o", "y", "e", "d">>
  [] s = "disappointed" -> <<"d", "i", "s", "a", "p", "p", "o", "i", "n", "t", "e", "d">>
  [] s = "poor" -> <<"p", "o", "o", "r">>
  [] s = "fail" -> <<"f", "a", "i", "l">>
  [] s = "sucks" -> <<"s", "u", "c", "k", "s">>
  [] s = "stupid" -> <<"s", "t", "u", "p", "i", "d">>
  [] s = "useless" -> <<"u", "s", "e", "l", "e", "s", "s">>
  [] s = "broken" -> <<"b", "r", "o", "k", "e", "n">>

Lower(c) ==
  CASE c = "A" -> "a" [] c = "B" -> "b" [] c = "C" -> "c" [] c = "D" -> "d"
    [] c = "E" -> "e" [] c = "F" -> "f" [] c = "G" -> "g" [] c = "H" -> "h"
    [] c = "I" -> "i" [] c = "J" -> "j" [] c = "K" -> "k" [] c = "L" -> "l"
    [] c = "M" -> "m" [] c = "N" -> "n" [] c = "O" -> "o" [] c = "P" -> "p"
    [] c = "Q" -> "q" [] c = "R" -> "r" [] c = "S" -> "s" [] c = "T" -> "t"
    [] c = "U" -> "u" [] c = "V" -> "v" [] c = "W" -> "w" [] c = "X" -> "x"
    [] c = "Y" -> "y" [] c = "Z" -> "z" [] OTHER -> c

\* String.prototype.toLowerCase
toLowerCase(cs) == [i \in DOMAIN cs |-> Lower(cs[i])]

\* String.prototype.startsWith
startsWith(cs, p) ==
  /\ Len(p) <= Len(cs)
  /\ SubSeq(cs, 1, Len(p)) = p

\* String.prototype.includes
includes(cs, sub) ==
  \E i \in 0..(Len(cs) - Len(sub)) : SubSeq(cs, i + 1, i + Len(sub)) = sub

\* String.prototype.slice(n) with 0 <= n
sliceFrom(cs, n) == SubSeq(cs, n + 1, Len(cs))

\* String.prototype.trim (the only white space the model's strings hold is " ")
RECURSIVE trimStart(_)
trimStart(cs) ==
  IF cs # << >> /\ Head(cs) = " " THEN trimStart(Tail(cs)) ELSE cs

RECURSIVE trimEnd(_)
trimEnd(cs) ==
  IF cs # << >> /\ cs[Len(cs)] = " " THEN trimEnd(SubSeq(cs, 1, Len(cs) - 1)) ELSE cs

trim(cs) == trimEnd(trimStart(cs))

\* String.prototype.split(sep) for a separator matched greedily when
\* greedy (the regular expression / +/) and singly otherwise (' ').
\* The result of splitting "" is [""], as in JavaScript.
RECURSIVE splitOn(_, _, _)
splitOn(cs, greedy, cur) ==
  IF cs = << >> THEN << cur >>
  ELSE IF Head(cs) = " "
       THEN << cur >> \o splitOn(IF greedy THEN trimStart(cs) ELSE Tail(cs), greedy, << >>)
       ELSE splitOn(Tail(cs), greedy, Append(cur, Head(cs)))

splitSpaces(cs) == splitOn(cs, TRUE, << >>)
splitSpace(cs) == splitOn(cs, FALSE, << >>)

\* Array.prototype.slice(-n) for n >= 0.  slice(-0) is slice(0): the whole array.
sliceLast(s, n) ==
  IF n = 0 \/ n >= Len(s) THEN s ELSE SubSeq(s, Len(s) - n + 1, Len(s))

\* Array.prototype.slice(k): k >= 0 drops the first k, k < 0 keeps the last -k.
slice(s, k) ==
  IF k >= 0 THEN SubSeq(s, k + 1, Len(s)) ELSE sliceLast(s, 0 - k)

\* The truth value JavaScript gives a string in a condition.
Truthy(s) == s # ""

DigitValue(c) ==
  CASE c = "0" -> 0 [] c = "1" -> 1 [] c = "2" -> 2 [] c = "3" -> 3 [] c = "4" -> 4
    [] c = "5" -> 5 [] c = "6" -> 6 [] c = "7" -> 7 [] c = "8" -> 8 [] c = "9" -> 9
    [] OTHER -> -1

\* The longest prefix of cs made of decimal digits.
RECURSIVE leadingDigits(_)
leadingDigits(cs) ==
  IF cs # << >> /\ DigitValue(Head(cs)) >= 0
  THEN << Head(cs) >> \o leadingDigits(Tail(cs))
  ELSE << >>

RECURSIVE decimalValue(_)
decimalValue(ds) ==
  IF ds = << >> THEN 0
  ELSE 10 * decimalValue(SubSeq(ds, 1, Len(ds) - 1)) + DigitValue(ds[Len(ds)])

\* parseInt(string): leading white space and a sign are accepted, the digits
\* that follow are read, and the result is NaN when there is none.
parseInt(cs) ==
  LET body == trimStart(cs)
      signed == body # << >> /\ Head(body) \in { "-", "+" }
      ds == leadingDigits(IF signed THEN Tail(body) ELSE body)
  IN  IF ds = << >> THEN [nan |-> TRUE, value |-> 0]
      ELSE [nan |-> FALSE,
            value |-> IF signed /\ Head(body) = "-" THEN 0 - decimalValue(ds)
                      ELSE decimalValue(ds)]

(***************************************************************************)
(* bot/nlp: the fallback responder and the fallback sentiment analyser.    *)
(***************************************************************************)
FB_HELP == "I can help you with various tasks! Try commands like 'info', 'weather', 'reminder', or just chat with me naturally."
FB_HELLO == "Hello there! I'm your AI assistant bot. How can I help you today?"
FB_WEATHER == "I'd like to provide weather information, but I'm currently running in offline mode. Please add a valid API key to enable full functionality."
FB_JOKE == "Why don't scientists trust atoms? Because they make up everything!"
FB_THANK == "You're welcome! Let me know if you need anything else."
FB_DISCORD == "Discord is a popular communication platform designed for creating communities. Users can communicate via voice calls, video calls, text messaging, and media and files in private chats or as part of communities called 'servers'."
FB_BOT == "I'm an AI assistant designed to help with conversations, answer questions, and assist with various tasks on Discord. I'm currently running with limited functionality."
FB_OFFLINE == "I'm currently operating in offline mode with limited functionality. Please provide a valid OpenAI API key with sufficient quota to enable my full AI capabilities."

NO_RESPONSE == "I'm sorry, I couldn't generate a response."
NLP_APOLOGY == "I'm sorry, I'm having trouble processing your request right now. Please try again later."

\* Generate consistent fallback responses based on prompt
\* Variant of getFallbackResponse without the generic reply (C19 depends on
\* the function being total and non-empty).
getFallbackResponseKeywordsOnly(prompt) ==
  LET promptLower == toLowerCase(Chars(prompt))
      has(w) == includes(promptLower, Chars(w))
  IN  IF has("help") \/ has("command") THEN FB_HELP
      ELSE IF has("hello") \/ has("hi ") \/ promptLower = Chars("hi") THEN FB_HELLO
      ELSE IF has("joke") \/ has("funny") THEN FB_JOKE
      ELSE ""

getFallbackResponse(prompt) ==
  LET promptLower == toLowerCase(Chars(prompt))
      has(w) == includes(promptLower, Chars(w))
  IN  IF has("help") \/ has("command") THEN FB_HELP
      ELSE IF has("hello") \/ has("hi ") \/ promptLower = Chars("hi") THEN FB_HELLO
      ELSE IF has("weather") THEN FB_WEATHER
      ELSE IF has("joke") \/ has("funny") THEN FB_JOKE
      ELSE IF has("thank") THEN FB_THANK
      ELSE IF has("discord") THEN FB_DISCORD
      ELSE IF has("bot") \/ has("ai") THEN FB_BOT
      ELSE FB_OFFLINE

positiveWords ==
  { "good", "great", "amazing", "excellent", "wonderful", "fantastic", "awesome",
    "happy", "joy", "love", "like", "best", "thank", "thanks", "appreciate",
    "perfect", "brilliant", "outstanding" }

negativeWords ==
  { "bad", "terrible", "awful", "horrible", "worst", "hate", "dislike", "sad",
    "angry", "annoyed", "disappointed", "poor", "fail", "sucks", "stupid",
    "useless", "broken" }

\* Math.round(d / 2) for an integer d >= 0 (halves round up).
roundHalf(d) == (d + 1) \div 2

Min(a, b) == IF a <= b THEN a ELSE b
Max(a, b) == IF a >= b THEN a ELSE b

\* Simple rule-based sentiment analysis for fallback.  A confidence is the
\* fraction num/den (not reduced).
getFallbackSentiment(text) ==
  LET textLower == toLowerCase(Chars(text))
      positiveCount == Cardinality({ w \in positiveWords : includes(textLower, Chars(w)) })
      negativeCount == Cardinality({ w \in negativeWords : includes(textLower, Chars(w)) })
      totalWords == Len(splitSpace(Chars(text)))
      hits == positiveCount + negativeCount
      \* min(0.7, hits / totalWords) + 0.1
      confidence == IF 10 * hits > 7 * totalWords
                    THEN [num |-> 8, den |-> 10]
                    ELSE [num |-> 10 * hits + totalWords, den |-> 10 * totalWords]
  IN  IF positiveCount > negativeCount
      THEN [rating |-> Min(5, 3 + roundHalf(positiveCount - negativeCount)),
            confidence |-> confidence]
      ELSE IF negativeCount > positiveCount
      THEN [rating |-> Max(1, 3 - roundHalf(negativeCount - positiveCount)),
            confidence |-> confidence]
      ELSE [rating |-> 3, confidence |-> [num |-> 5, den |-> 10]]

\* Variant of isLimitError that knows the quota error only (C4 depends on
\* the rate-limit test).
isLimitErrorQuotaOnly(error) == includes(Chars(error), Chars("insufficient_quota"))

\* The test both catch blocks of bot/nlp apply to error.toString().
isLimitError(error) ==
  \/ includes(Chars(error), Chars("insufficient_quota"))
  \/ includes(Chars(error), Chars("rate limit"))

\* Variant of flagAfterError that flips the flag at a limit error instead of
\* clearing it (C23 depends on the assignment being idempotent).
flagAfterErrorFlipped(flag, error) == IF isLimitError(error) THEN ~flag ELSE flag

\* Variant of flagAfterError in which any other failure switches the backend
\* on again (C2 depends on the flag being only ever cleared).
flagAfterErrorReset(flag, error) == IF isLimitError(error) THEN FALSE ELSE TRUE

\* useOpenAI after a failed backend call.
flagAfterError(flag, error) == IF isLimitError(error) THEN FALSE ELSE flag

\* completion.choices[0].message.content || "I'm sorry, I couldn't generate a response."
contentOrDefault(content) == IF Truthy(content) THEN content ELSE NO_RESPONSE

(***************************************************************************)
(* storage.ts (MemStorage) and bot/context: conversations.  A conversation *)
(* id is its index in the sequence conversations.                          *)
(***************************************************************************)
DEFAULT_CONTEXT_SIZE == 5

SYSTEM_PROMPT == "You are a helpful Discord bot assistant. Provide concise, accurate information. If you don't know something, say so rather than making up information."

\* botSettings.contextSize || DEFAULT_CONTEXT_SIZE
contextSizeOf(settings) ==
  IF settings.contextSize = 0 THEN DEFAULT_CONTEXT_SIZE ELSE settings.contextSize

\* Variant of getActiveConversationByUserId that does not compare the user
\* (C24 depends on the lookup being per user).
getActiveConversationByUserIdAnyUser(convs, userId) ==
  LET ids == { i \in DOMAIN convs : convs[i].active }
  IN  IF ids = {} THEN 0 ELSE CHOOSE i \in ids : \A j \in ids : i <= j

\* Variant of getActiveConversationByUserId that finds nothing (C22 depends
\* on the lookup before createConversation).
getActiveConversationByUserIdBlind(convs, userId) == 0

\* MemStorage.getActiveConversationByUserId: the id of the first conversation,
\* in insertion order, of the user that is active; 0 for undefined.
getActiveConversationByUserId(convs, userId) ==
  LET ids == { i \in DOMAIN convs : convs[i].userId = userId /\ convs[i].active }
  IN  IF ids = {} THEN 0 ELSE CHOOSE i \in ids : \A j \in ids : i <= j

\* MemStorage.createConversation({userId, context: [], active: true})
createConversation(convs, userId) ==
  Append(convs, [userId |-> userId, context |-> << >>, active |-> TRUE])

\* MemStorage.updateConversation(id, context)
updateConversation(convs, id, context) ==
  IF id \in DOMAIN convs THEN [convs EXCEPT ![id].context = context] ELSE convs

\* Variant of limitContext that keeps the oldest entries (C28 depends on
\* the negative index of slice).
limitContextOldest(updatedContext, contextSize) ==
  IF Len(updatedContext) > contextSize * 2
  THEN SubSeq(updatedContext, 1, contextSize * 2)
  ELSE updatedContext

\* The truncation both append operations apply to the updated context.
limitContext(updatedContext, contextSize) ==
  IF Len(updatedContext) > contextSize * 2
  THEN slice(updatedContext, 0 - contextSize * 2)
  ELSE updatedContext

\* new Date() of the context messages: a clock that never runs backwards,
\* counted in appends (one more than the latest timestamp in the store).
newDate(convs) ==
  LET stamps == UNION { { convs[i].context[j].timestamp : j \in 1..Len(convs[i].context) } :
                          i \in DOMAIN convs }
  IN  IF stamps = { } THEN 1
      ELSE 1 + CHOOSE s \in stamps : \A t \in stamps : t <= s

\* context.addUserMessage: the conversations after the call.
addUserMessage(convs, settings, userId, content) ==
  IF ~settings.contextAwareness THEN convs
  ELSE LET found == getActiveConversationByUserId(convs, userId)
           convs1 == IF found = 0 THEN createConversation(convs, userId) ELSE convs
           id == IF found = 0 THEN Len(convs1) ELSE found
           updatedContext == Append(convs1[id].context,
                                    [role |-> "user", content |-> content,
                                     timestamp |-> newDate(convs)])
       IN  updateConversation(convs1, id, limitContext(updatedContext, contextSizeOf(settings)))

\* context.addBotMessage: the conversations after the call.
addBotMessage(convs, settings, userId, content) ==
  IF ~settings.contextAwareness THEN convs
  ELSE LET id == getActiveConversationByUserId(convs, userId)
       IN  IF id = 0 THEN convs
           ELSE LET updatedContext ==
                      Append(convs[id].context,
                             [role |-> "assistant", content |-> content,
                              timestamp |-> newDate(convs)])
                IN  updateConversation(convs, id,
                                       limitContext(updatedContext, contextSizeOf(settings)))

\* Variant of getContext that returns the whole stored window (C29 depends
\* on the slice of the value returned).
getContextWhole(convs, settings, userId) ==
  IF ~settings.contextAwareness THEN [convs |-> convs, context |-> << >>]
  ELSE LET found == getActiveConversationByUserId(convs, userId)
           convs1 == IF found = 0 THEN createConversation(convs, userId) ELSE convs
           id == IF found = 0 THEN Len(convs1) ELSE found
       IN  [convs |-> convs1, context |-> convs1[id].context]

\* Variant of getContext that does not test contextAwareness (C20 depends on
\* the test).
getContextAlways(convs, settings, userId) ==
  LET found == getActiveConversationByUserId(convs, userId)
      convs1 == IF found = 0 THEN createConversation(convs, userId) ELSE convs
      id == IF found = 0 THEN Len(convs1) ELSE found
  IN  [convs |-> convs1,
       context |-> slice(convs1[id].context, 0 - contextSizeOf(settings))]

\* context.getContext: the conversations after the call and the value returned.
getContext(convs, settings, userId) ==
  IF ~settings.contextAwareness THEN [convs |-> convs, context |-> << >>]
  ELSE LET found == getActiveConversationByUserId(convs, userId)
           convs1 == IF found = 0 THEN createConversation(convs, userId) ELSE convs
           id == IF found = 0 THEN Len(convs1) ELSE found
       IN  [convs |-> convs1,
            context |-> slice(convs1[id].context, 0 - contextSizeOf(settings))]

\* context.updateContext(userId, newContextSize): the conversations after the call.
updateContext(convs, userId, newContextSize) ==
  LET id == getActiveConversationByUserId(convs, userId)
  IN  IF id = 0 THEN convs
      ELSE IF Len(convs[id].context) > newContextSize * 2
           THEN updateConversation(convs, id, slice(convs[id].context, 0 - newContextSize * 2))
           ELSE convs

\* Variant of closeConversation that reports success without marking the
\* conversation (C21 depends on the mark).
closeConversationUnmarked(convs, userId) ==
  LET id == getActiveConversationByUserId(convs, userId)
  IN  IF id = 0 THEN [convs |-> convs, result |-> FALSE]
      ELSE [convs |-> convs, result |-> TRUE]

\* context.closeConversation(userId) with MemStorage.closeConversation(id):
\* the conversations after the call and the value returned.
closeConversation(convs, userId) ==
  LET id == getActiveConversationByUserId(convs, userId)
  IN  IF id = 0 THEN [convs |-> convs, result |-> FALSE]
      ELSE [convs |-> [convs EXCEPT ![id].active = FALSE], result |-> TRUE]

\* Variant of formatContextForNLP that puts the system message after the
\* conversation (C31 depends on its being first).
formatContextForNLPSystemLast(context) ==
  [i \in DOMAIN context |-> [role |-> context[i].role, content |-> context[i].content]] \o
  << [role |-> "system", content |-> SYSTEM_PROMPT] >>

\* context.formatContextForNLP
formatContextForNLP(context) ==
  << [role |-> "system", content |-> SYSTEM_PROMPT] >> \o
  [i \in DOMAIN context |-> [role |-> context[i].role, content |-> context[i].content]]

(***************************************************************************)
(* bot/moderation: the decision of moderateMessage.  A scorer result is    *)
(* [flagged, categories, category_scores]; scores are in hundredths.       *)
(***************************************************************************)
CategoryOrder == << "harassment", "hate", "violence/graphic" >>
Categories == { CategoryOrder[i] : i \in DOMAIN CategoryOrder }

highSeverityCategories ==
  { "sexual/minors", "violence/graphic", "hate/threatening", "self-harm/intent" }

\* Object.entries(results.categories).filter(value === true).map(key)
flaggedCategories(results) ==
  SelectSeq(CategoryOrder, LAMBDA c : results.categories[c])

\* Math.max(...Object.values(results.category_scores))
maxScore(results) ==
  CHOOSE s \in { results.category_scores[c] : c \in Categories } :
    \A c \in Categories : results.category_scores[c] <= s

hasHighSeverity(results) ==
  \E i \in DOMAIN flaggedCategories(results) :
    flaggedCategories(results)[i] \in highSeverityCategories

\* Variant of moderationDecision with inclusive bounds (C14 depends on the
\* strict comparisons).
moderationDecisionInclusive(results) ==
  IF ~results.flagged THEN "none"
  ELSE IF hasHighSeverity(results) \/ maxScore(results) >= 90 THEN "mute"
  ELSE IF maxScore(results) >= 70 THEN "warn"
  ELSE "none"

\* The action moderateMessage decides for a scorer result.
moderationDecision(results) ==
  IF ~results.flagged THEN "none"
  ELSE IF hasHighSeverity(results) \/ maxScore(results) > 90 THEN "mute"
  ELSE IF maxScore(results) > 70 THEN "warn"
  ELSE "none"

(***************************************************************************)
(* bot/commands: the registry and the parsing of handleCommand.            *)
(***************************************************************************)
PREFIX == "!"

commands == { Chars(n) : n \in { "help", "weather", "translate", "news", "remind", "stats" } }

\* message.content.slice(prefix.length).trim().split(/ +/)
commandTokens(content, prefix) ==
  splitSpaces(trim(sliceFrom(Chars(content), Len(Chars(prefix)))))

\* args.shift()?.toLowerCase()
commandNameOf(content, prefix) == toLowerCase(Head(commandTokens(content, prefix)))

commandArgsOf(content, prefix) == Tail(commandTokens(content, prefix))

W_USAGE == "Please specify a location. Example: !weather New York"
W_UNAVAILABLE == "Weather service is currently unavailable."
W_NOKEY == "Weather API key is not configured."
W_SORRY == "Sorry, I couldn't retrieve the weather information. Please try again later."
W_EMBED == "embed: Weather in city"
HELP_ONE == "embed: Command"
HELP_ALL == "embed: Available Commands"
R_USAGE == "Please specify a time and message. Example: !remind 30 Check on the pizza"
R_INVALID == "Please provide a valid time in minutes (1-1440)."
R_CONFIRM == "I'll remind you about the text in the minutes given."
CMD_ERROR == "There was an error executing that command. Please try again later."
INDEX_APOLOGY == "Sorry, I encountered an error processing your request. Please try again later."
LIMITED_REPLY == "Hi there! I'm currently running with limited permissions. I can see that you mentioned me, but I can't read message content due to Discord's privacy rules. Please ask your server admin to enable the 'MESSAGE CONTENT INTENT' for me in the Discord Developer Portal."

(***************************************************************************)
(* Inputs of the model: users, gateway events, prompts, and the outcomes   *)
(* of the external calls.                                                  *)
(***************************************************************************)
Users == { "u1", "u2" }

Event(author, bot, content, isMentioned, isDM) ==
  [author |-> author, bot |-> bot, content |-> content,
   isMentioned |-> isMentioned, isDM |-> isDM]

\* message.guild && message.member: a DM has neither.
inGuild(ev) == ~ev.isDM

Events ==
  { Event("u1", FALSE, "Hello", FALSE, TRUE),
    Event("u1", FALSE, "what is rain", TRUE, FALSE),
    Event("u2", FALSE, "you are bad", FALSE, FALSE),
    Event("u2", FALSE, "   ", FALSE, TRUE),
    Event("u1", FALSE, "!weather paris", FALSE, FALSE),
    Event("u2", FALSE, "!weather", TRUE, FALSE),
    Event("u1", FALSE, "!Help", FALSE, TRUE),
    Event("u2", FALSE, "!foo hi", FALSE, FALSE),
    Event("u2", TRUE, "hello", FALSE, TRUE) }

\* Messages that name the remind command.
RemindEvents ==
  { Event("u1", FALSE, "!remind 5 tea", FALSE, FALSE),
    Event("u2", FALSE, "!remind 5 tea", FALSE, TRUE),
    Event("u1", FALSE, "!remind 0 tea", FALSE, FALSE),
    Event("u1", FALSE, "!remind 1441 tea", FALSE, FALSE),
    Event("u2", FALSE, "!remind x tea", FALSE, FALSE),
    Event("u2", FALSE, "!remind 5", FALSE, FALSE) }

Prompts == { "hello", "tell me a joke", "xyz", "!foo hi" }
SentimentTexts == { "good great day", "good bad", "bad" }

AI_TEXT == "Sure, here is an answer."
ERR_QUOTA == "Error: 429 insufficient_quota"
ERR_RATE == "Error: 429 rate limit reached"
ERR_TRANSIENT == "Error: 503 service unavailable"
ERR_SYNTAX == "SyntaxError: Unexpected token"

Completion(ok, content, error) == [ok |-> ok, content |-> content, error |-> error]

\* What openai.chat.completions.create resolves or rejects with.
ChatOutcomes ==
  { Completion(TRUE, AI_TEXT, ""), Completion(TRUE, "", ""),
    Completion(FALSE, "", ERR_QUOTA), Completion(FALSE, "", ERR_RATE),
    Completion(FALSE, "", ERR_TRANSIENT) }

\* The JSON payloads of the sentiment completion: a parsed {rating, confidence}
\* (confidence in tenths), or text JSON.parse rejects.
Payload(parses, rating, confidence) ==
  [parses |-> parses, rating |-> rating, confidence |-> confidence]

SentimentPayloads ==
  { Payload(TRUE, 4, 9), Payload(TRUE, 7, 20), Payload(TRUE, 0, 0 - 1), Payload(FALSE, 0, 0) }

Scores(harassment, hate, violence) ==
  [c \in Categories |->
     IF c = "harassment" THEN harassment ELSE IF c = "hate" THEN hate ELSE violence]

Flags(harassment, hate, violence) ==
  [c \in Categories |->
     IF c = "harassment" THEN harassment ELSE IF c = "hate" THEN hate ELSE violence]

ScorerResult(flagged, categories, scores) ==
  [flagged |-> flagged, categories |-> categories, category_scores |-> scores]

\* What openai.moderations.create resolves with.
ScorerResults ==
  { ScorerResult(FALSE, Flags(FALSE, FALSE, FALSE), Scores(1, 1, 1)),
    ScorerResult(TRUE, Flags(TRUE, FALSE, FALSE), Scores(75, 1, 1)),
    ScorerResult(TRUE, Flags(TRUE, FALSE, FALSE), Scores(50, 1, 1)),
    ScorerResult(TRUE, Flags(FALSE, FALSE, TRUE), Scores(1, 1, 50)),
    ScorerResult(TRUE, Flags(TRUE, TRUE, FALSE), Scores(95, 60, 1)) }

\* Scorer results around the thresholds of moderateMessage (scores in
\* hundredths): harassment at every level, flagged or not; hate never flagged,
\* scored low or 0.75; violence/graphic flagged with 0.5 or absent.
ScoreLevels == { 50, 70, 75, 90, 95 }

ClassifierResults ==
  { ScorerResult(a \/ c, Flags(a, FALSE, c), Scores(x, y, IF c THEN 50 ELSE 1)) :
      a \in BOOLEAN, c \in BOOLEAN, x \in ScoreLevels, y \in { 1, 75 } }

ContextSizes == { 1, 2, 5 }

Settings(contextAwareness, autoModeration, contextSize) ==
  [contextAwareness |-> contextAwareness, autoModeration |-> autoModeration,
   contextSize |-> contextSize]

SettingsSpace ==
  { Settings(a, m, n) : a \in BOOLEAN, m \in BOOLEAN, n \in ContextSizes }

ContextOp(op, userId, size, result) ==
  [op |-> op, userId |-> userId, size |-> size, result |-> result,
   content |-> "", returned |-> << >>]

\* The values of process.env.OPENAI_API_KEY at start: not set, the mock
\* key, a project key and another key.
ApiKeys == { "", "mock-key", "sk-proj-abc", "sk-live-abc" }

\* The contents of the messages the context manager is called with directly.
Contents == { "hi", "ok" }

(***************************************************************************)
(* State.                                                                  *)
(***************************************************************************)
VARIABLES
  isReady,            \* bot/index: let isReady
  client,             \* bot/index: export let client ("full" or "reduced")
  online,             \* the clients logged in to the gateway
  readyListener,      \* the client.once(ClientReady) listener is still registered
  logins,             \* the pending client.login promises
  starts,             \* number of startBot calls so far
  hasToken,           \* process.env.DISCORD_BOT_TOKEN is set
  apiKey,             \* process.env.OPENAI_API_KEY ("" when it is not set)
  useOpenAI,          \* bot/nlp: let useOpenAI
  botSettings,        \* MemStorage.botSettings
  settingsUpdates,    \* number of settings updates so far
  discordUsers,       \* MemStorage.discordUsers (the ids)
  conversations,      \* MemStorage.conversations
  moderationActions,  \* MemStorage.moderationActions
  weatherActive,      \* MemStorage.apiIntegrations: 'Weather API'.active
  usage,              \* usage counters of the commands and of the Weather API
  messages,           \* number of MessageCreate events so far
  handlers,           \* the handlers of the events: those running and those
                      \* that finished since the latest event
  reminders,          \* the timers the remind command has set
  apiCalls,           \* number of generateResponse / analyzeSentiment calls so far
  calls,              \* the generateResponse / analyzeSentiment calls: those
                      \* running and those that finished since the latest call
  tasks,              \* processNaturalLanguage calls followed await by await
  responses,          \* the responses of POST /api/moderation, oldest first
  contextOps,         \* number of direct context-manager calls so far
  lastOp              \* the latest direct context-manager call

vars ==
  << isReady, client, online, readyListener, logins, starts, hasToken, apiKey, useOpenAI,
     botSettings,
     settingsUpdates, discordUsers, conversations, moderationActions, weatherActive,
     usage, messages, handlers, reminders, apiCalls, calls, tasks, responses, contextOps,
     lastOp >>

lifecycleVars ==
  << isReady, client, online, readyListener, logins, starts, hasToken, apiKey >>
storeVars == << botSettings, discordUsers, conversations, moderationActions,
                weatherActive, usage >>
handlerVars == << messages, handlers, reminders >>
callVars == << apiCalls, calls, tasks, responses >>
envVars == << settingsUpdates, contextOps, lastOp >>

(***************************************************************************)
(* bot/index and bot/nlp: module initialisation.                           *)
(***************************************************************************)
\* The listeners bot/index registers at load time are registered on the
\* client the variable holds then: fullIntentClient.
MessageCreateListeners == { "full" }

\* Variant of initialUseOpenAI that accepts every key that is set (C26
\* depends on the validation of the key).
initialUseOpenAIAnyKey(key) == Truthy(key)

\* bot/nlp initialisation: useOpenAI stays true unless the key is missing,
\* is 'mock-key' or starts with 'sk-proj-', in which case the try block
\* throws and the catch block clears it.
initialUseOpenAI(key) ==
  ~( \/ ~Truthy(key)
     \/ key = "mock-key"
     \/ startsWith(Chars(key), Chars("sk-proj-")) )

NewHandler(ev, via) ==
  [ev |-> ev, via |-> via, accepted |-> FALSE, pc |-> "done",
   sending |-> "", after |-> "", catch |-> << >>, context |-> << >>,
   aiResponse |-> "", results |-> << >>, action |-> "none", reason |-> << >>,
   verdict |-> "", timeout |-> 0,
   \* history of the handler
   stored |-> FALSE, priv |-> FALSE, cmd |-> << >>, modCalls |-> 0, nlp |-> 0,
   attempts |-> 0, mode |-> "", error |-> "", sent |-> << >>,
   replies |-> << >>, effects |-> << >>]

Init ==
  /\ isReady = FALSE
  /\ client = "full"
  /\ online = {}
  /\ readyListener = TRUE
  /\ logins = {}
  /\ starts = 0
  /\ hasToken \in BOOLEAN
  /\ apiKey \in ApiKeys
  /\ useOpenAI = initialUseOpenAI(apiKey)
  /\ botSettings = Settings(TRUE, TRUE, 5)
  /\ settingsUpdates = 0
  /\ discordUsers = {}
  /\ conversations = << >>
  /\ moderationActions = << >>
  /\ weatherActive = TRUE
  /\ usage = [n \in { "help", "weather", "remind", "Weather API" } |-> 0]
  /\ messages = 0
  /\ handlers = << >>
  /\ reminders = << >>
  /\ apiCalls = 0
  /\ calls = << >>
  /\ tasks = << >>
  /\ responses = << >>
  /\ contextOps = 0
  /\ lastOp = ContextOp("none", "", 0, FALSE)

(***************************************************************************)
(* The MessageCreate handler (bot/index), handleCommand (bot/commands),    *)
(* moderateMessage (bot/moderation) and processNaturalLanguage (bot/nlp).  *)
(* Each operator below runs a handler h from one point of the code to its  *)
(* next awaited I/O and gives the handler and the conversations after it.  *)
(* h.pc names the I/O call awaited; h.catch is the stack of the enclosing  *)
(* try blocks, innermost last.                                             *)
(***************************************************************************)
Result(h, convs) == [h |-> h, convs |-> convs]

Await(h, pc) == [h EXCEPT !.pc = pc]

\* await message.reply(text), continuing at `after` when it resolves
Reply(h, text, after) == [h EXCEPT !.pc = "reply", !.sending = text, !.after = after]

Returned(h) ==
  [h EXCEPT !.pc = "done", !.sending = "", !.after = "", !.catch = << >>,
            !.context = << >>]

Push(h, try) == [h EXCEPT !.catch = Append(@, try)]
Pop(h) == [h EXCEPT !.catch = SubSeq(@, 1, Len(@) - 1)]

\* Variant of ignoresEvent without the test of the author (C9 depends on it).
ignoresOnlyUnready(ready, bot) == ~ready

\* bot/index line 41: if (!isReady || message.author.bot) return
ignoresEvent(ready, bot) == ~ready \/ bot

\* bot/nlp processNaturalLanguage, up to the typing indicator
\* Variant of processNaturalLanguage that reads the context without adding
\* the user's message (C18 depends on addUserMessage coming first).
processNaturalLanguageUnrecorded(h, convs) ==
  LET got == getContext(convs, botSettings, h.ev.author)
  IN  Result(Await(Push([h EXCEPT !.nlp = @ + 1, !.context = got.context], "nlp"),
                   "sendTyping"),
             got.convs)

processNaturalLanguage(h, convs) ==
  LET convs1 == addUserMessage(convs, botSettings, h.ev.author, h.ev.content)
      got == getContext(convs1, botSettings, h.ev.author)
  IN  Result(Await(Push([h EXCEPT !.nlp = @ + 1, !.context = got.context], "nlp"),
                   "sendTyping"),
             got.convs)

\* bot/index lines 69-75
respondIfAddressed(h, convs) ==
  IF h.ev.isMentioned \/ h.ev.isDM
  THEN processNaturalLanguage(h, convs)
  ELSE Result(Returned(h), convs)

\* bot/index lines 63-66: if (moderationResult.action) return
afterModeration(h, convs, action) ==
  LET h1 == [h EXCEPT !.verdict = action]
  IN  IF Truthy(action) THEN Result(Returned(h1), convs) ELSE respondIfAddressed(h1, convs)

\* bot/moderation moderateMessage, up to the scorer call
moderateMessage(h, convs) ==
  IF ~botSettings.autoModeration THEN afterModeration(h, convs, "none")
  ELSE IF trim(Chars(h.ev.content)) = << >> THEN afterModeration(h, convs, "none")
  ELSE Result(Await(Push([h EXCEPT !.modCalls = @ + 1], "moderateMessage"),
                    "moderations.create"),
              convs)

\* bot/index lines 59-75
moderateThenRespond(h, convs) ==
  IF botSettings.autoModeration
  THEN moderateMessage(h, convs)
  ELSE respondIfAddressed(h, convs)

\* Variant of afterHandleCommand that goes on with the rest of the handler
\* (C10 depends on the return).
afterHandleCommandFallsThrough(h, convs) == moderateThenRespond(h, convs)

\* bot/index line 56: the return after handleCommand
afterHandleCommand(h, convs) == Result(Returned(h), convs)

\* Variant of weatherCommand without the test of the integration (C7
\* depends on it).
weatherCommandAlwaysOn(h, args, envKey) ==
  IF args = << >> THEN Reply(h, W_USAGE, "command")
  ELSE IF ~envKey THEN Reply(Push(h, "weather"), W_NOKEY, "command")
  ELSE Await(Push(h, "weather"), "axios.get")

\* The weather command, up to its first awaited I/O.  envKey: whether
\* process.env.WEATHER_API_KEY is set (the stored apiKey is "").
weatherCommand(h, args, envKey) ==
  IF args = << >> THEN Reply(h, W_USAGE, "command")
  ELSE IF ~weatherActive THEN Reply(h, W_UNAVAILABLE, "command")
  ELSE IF ~envKey THEN Reply(Push(h, "weather"), W_NOKEY, "command")
  ELSE Await(Push(h, "weather"), "axios.get")

\* The help command, up to its reply.
helpCommand(h, args) ==
  IF args # << >> /\ toLowerCase(Head(args)) \in commands
  THEN Reply(h, HELP_ONE, "command")
  ELSE Reply(h, HELP_ALL, "usage.help")

\* The minutes the remind command reads from its first argument.
minutesOf(args) == parseInt(Head(args))

\* Variant of remindCommand that replies only when the reminder is due
\* (C32 depends on the command not waiting for the timer).
remindCommandWaits(h, args) ==
  IF Len(args) < 2 THEN Reply(h, R_USAGE, "command")
  ELSE IF \/ minutesOf(args).nan
          \/ minutesOf(args).value <= 0
          \/ minutesOf(args).value > 1440
       THEN Reply(h, R_INVALID, "command")
       ELSE Await(h, "timer")

\* The remind command, up to its reply.
remindCommand(h, args) ==
  IF Len(args) < 2 THEN Reply(h, R_USAGE, "command")
  ELSE IF \/ minutesOf(args).nan
          \/ minutesOf(args).value <= 0
          \/ minutesOf(args).value > 1440
       THEN Reply(h, R_INVALID, "command")
       ELSE Reply(h, R_CONFIRM, "setTimeout")

\* setTimeout(callback, minutes * 60 * 1000) of the remind command: the
\* timer of the reminder, set while `count` events have been delivered.
setTimeout(timers, h, count) ==
  LET args == commandArgsOf(h.ev.content, PREFIX)
  IN  Append(timers,
             [author |-> h.ev.author, reminderText |-> Tail(args),
              delay |-> minutesOf(args).value * 60 * 1000,
              pc |-> "scheduled", set |-> count, fired |-> 0, sends |-> << >>])

\* command.execute(message, args) inside the try of handleCommand
execute(h, name, args, envKey) ==
  LET h1 == Push([h EXCEPT !.cmd = name], "handleCommand")
  IN  CASE name = Chars("weather") -> weatherCommand(h1, args, envKey)
        [] name = Chars("help") -> helpCommand(h1, args)
        [] name = Chars("remind") -> remindCommand(h1, args)

\* Variant of handleCommand that answers an unknown name with the error
\* reply (C13 depends on the hand-over to processNaturalLanguage).
handleCommandStrict(h, convs, envKey) ==
  LET commandName == commandNameOf(h.ev.content, PREFIX)
      args == commandArgsOf(h.ev.content, PREFIX)
  IN  IF commandName = << >> THEN afterHandleCommand(h, convs)
      ELSE IF commandName \notin commands THEN Result(Reply(h, CMD_ERROR, "command"), convs)
      ELSE Result(execute(h, commandName, args, envKey), convs)

\* bot/commands handleCommand
handleCommand(h, convs, envKey) ==
  LET commandName == commandNameOf(h.ev.content, PREFIX)
      args == commandArgsOf(h.ev.content, PREFIX)
  IN  IF commandName = << >> THEN afterHandleCommand(h, convs)
      ELSE IF commandName \notin commands THEN processNaturalLanguage(h, convs)
      ELSE Result(execute(h, commandName, args, envKey), convs)

\* bot/index line 54
isCommand(content) == startsWith(Chars(content), Chars(PREFIX))

\* bot/index lines 47-91, after ensureUserExists
dispatch(h, convs, envKey) ==
  IF h.priv
  THEN IF isCommand(h.ev.content)
       THEN handleCommand(h, convs, envKey)
       ELSE moderateThenRespond(h, convs)
  ELSE IF h.ev.isMentioned \/ h.ev.isDM
       THEN Result(Reply(h, LIMITED_REPLY, "return"), convs)
       ELSE Result(Returned(h), convs)

\* What follows a reply that resolved, or a failure that was swallowed.
Continue(h, convs) ==
  CASE h.after = "return" -> Result(Returned(h), convs)
    [] h.after \in { "command", "usage.help", "usage.weather", "setTimeout" } ->
         afterHandleCommand(h, convs)
    [] h.after = "addBotMessage" ->
         Result(Returned(h), addBotMessage(convs, botSettings, h.ev.author, h.aiResponse))

\* Variant of Throw whose outermost catch only logs (C11 depends on the
\* apology of the wrapper).
ThrowUnanswered(h, convs) ==
  LET try == h.catch[Len(h.catch)]
      h1 == Pop(h)
  IN  CASE try = "weather" -> Result(Reply(h1, W_SORRY, "command"), convs)
        [] try = "handleCommand" -> Result(Reply(h1, CMD_ERROR, "command"), convs)
        [] try = "nlp" -> Result(Reply(Push(h1, "logged"), NLP_APOLOGY, "return"), convs)
        [] try = "index" -> Result(Returned(h1), convs)
        [] try = "logged" -> Result(Returned(h1), convs)
        [] try = "moderateMessage" -> afterModeration(h1, convs, "none")

\* An awaited call of h rejected: control goes to the innermost catch.
\* Variant of Throw that stores the response although its reply was
\* rejected (C38 depends on addBotMessage coming after the awaited reply).
ThrowStored(h, convs) ==
  LET try == h.catch[Len(h.catch)]
      h1 == Pop(h)
  IN  CASE try = "weather" -> Result(Reply(h1, W_SORRY, "command"), convs)
        [] try = "handleCommand" -> Result(Reply(h1, CMD_ERROR, "command"), convs)
        [] try = "nlp" -> Result(Reply(Push(h1, "logged"), NLP_APOLOGY, "return"),
                                 IF h.after = "addBotMessage"
                                 THEN addBotMessage(convs, botSettings, h.ev.author,
                                                    h.aiResponse)
                                 ELSE convs)
        [] try = "index" -> Result(Reply(Push(h1, "logged"), INDEX_APOLOGY, "return"), convs)
        [] try = "logged" -> Result(Returned(h1), convs)
        [] try = "moderateMessage" -> afterModeration(h1, convs, "none")

Throw(h, convs) ==
  LET try == h.catch[Len(h.catch)]
      h1 == Pop(h)
  IN  CASE try = "weather" -> Result(Reply(h1, W_SORRY, "command"), convs)
        [] try = "handleCommand" -> Result(Reply(h1, CMD_ERROR, "command"), convs)
        [] try = "nlp" -> Result(Reply(Push(h1, "logged"), NLP_APOLOGY, "return"), convs)
        [] try = "index" -> Result(Reply(Push(h1, "logged"), INDEX_APOLOGY, "return"), convs)
        [] try = "logged" -> Result(Returned(h1), convs)
        [] try = "moderateMessage" -> afterModeration(h1, convs, "none")

(***************************************************************************)
(* Actions of the message handlers.                                        *)
(***************************************************************************)
Pending(pc) == { i \in DOMAIN handlers : handlers[i].pc = pc }

\* The records of those that have not finished.
Running(records) == SelectSeq(records, LAMBDA r : r.pc # "done")

\* The gateway delivers a MessageCreate event through a logged-in client; the
\* handler, if that client has one, runs up to its first I/O.
MessageCreate(ev, via, envKey) ==
  /\ messages < MaxMsgs
  /\ Len(Running(handlers)) < MaxRunning
  /\ messages' = messages + 1
  /\ via \in online
  /\ IF via \notin MessageCreateListeners \/ ignoresEvent(isReady, ev.bot)
     THEN /\ handlers' = Append(Running(handlers), NewHandler(ev, via))
          /\ UNCHANGED << discordUsers, conversations >>
     ELSE LET h == [NewHandler(ev, via) EXCEPT
                      !.accepted = TRUE, !.stored = TRUE, !.catch = << "index" >>,
                      \* client.options.intents.has(GatewayIntentBits.MessageContent)
                      !.priv = (client = "full")]
              r == dispatch(h, conversations, envKey)
          IN  /\ handlers' = Append(Running(handlers), r.h)
              \* ensureUserExists
              /\ discordUsers' = discordUsers \cup { ev.author }
              /\ conversations' = r.convs
  /\ UNCHANGED << lifecycleVars, useOpenAI, botSettings, moderationActions,
                  weatherActive, usage, reminders, callVars, envVars >>

\* The gateway delivers a MessageCreate event to the handler and a call of
\* the store made by ensureUserExists rejects (storage is an IStorage; the
\* calls of an implementation other than MemStorage can reject): control
\* goes from line 45 to the catch of the handler.
MessageCreateStorageRejects(ev, via) ==
  /\ messages < MaxMsgs
  /\ Len(Running(handlers)) < MaxRunning
  /\ messages' = messages + 1
  /\ via \in online
  /\ via \in MessageCreateListeners
  /\ ~ignoresEvent(isReady, ev.bot)
  /\ LET h == [NewHandler(ev, via) EXCEPT
                 !.accepted = TRUE, !.catch = << "index" >>, !.priv = (client = "full")]
         r == Throw(h, conversations)
     IN  /\ handlers' = Append(Running(handlers), r.h)
         /\ conversations' = r.convs
  /\ UNCHANGED << lifecycleVars, useOpenAI, botSettings, discordUsers, moderationActions,
                  weatherActive, usage, reminders, callVars, envVars >>

\* await message.reply(...) settles.
ReplyDone(i, ok) ==
  /\ i \in Pending("reply")
  /\ LET h == [handlers[i] EXCEPT !.replies = Append(@, [text |-> handlers[i].sending, ok |-> ok])]
         r == IF ok THEN Continue(h, conversations) ELSE Throw(h, conversations)
     IN  /\ handlers' = [handlers EXCEPT ![i] = r.h]
         /\ conversations' = r.convs
         /\ usage' = IF ok /\ h.after = "usage.help"
                       THEN [usage EXCEPT !["help"] = @ + 1]
                     ELSE IF ok /\ h.after = "usage.weather"
                       THEN [usage EXCEPT !["weather"] = @ + 1, !["Weather API"] = @ + 1]
                     ELSE IF ok /\ h.after = "setTimeout"
                       THEN [usage EXCEPT !["remind"] = @ + 1]
                     ELSE usage
         /\ reminders' = IF ok /\ h.after = "setTimeout"
                           THEN setTimeout(reminders, h, messages)
                           ELSE reminders
  /\ UNCHANGED << lifecycleVars, useOpenAI, botSettings, discordUsers,
                  moderationActions, weatherActive, messages, callVars, envVars >>

\* The weather command: await axios.get(url) settles.
AxiosGetDone(i, outcome) ==
  /\ i \in Pending("axios.get")
  /\ LET h == handlers[i]
         r == CASE outcome = "data" -> Result(Reply(h, W_EMBED, "usage.weather"), conversations)
                [] outcome = "empty" -> afterHandleCommand(h, conversations)
                [] outcome = "error" -> Throw(h, conversations)
     IN  /\ handlers' = [handlers EXCEPT ![i] = r.h]
         /\ conversations' = r.convs
  /\ UNCHANGED << lifecycleVars, useOpenAI, botSettings, discordUsers,
                  moderationActions, weatherActive, usage, messages, reminders, callVars,
                  envVars >>

\* moderateMessage: await openai.moderations.create(...) settles.  ok = FALSE
\* is a rejection; otherwise results is what the scorer returned.
\* Variant of createModerationAction that stores nothing (C17 depends on the
\* record being written before executeModerationAction).
createModerationActionLost(actions, insertAction) == actions

\* storage createModerationAction: the record is added to the store (the
\* id is its position).
createModerationAction(actions, insertAction) == Append(actions, insertAction)

\* Variant of logsAction that goes on to the record for every decision (C16
\* depends on the early return).
logsActionAlways(action) == TRUE

\* moderateMessage returns before createModerationAction when the decision
\* is none (the else branch of lines 175-178 and the return of line 196).
logsAction(action) == action # "none"

ModerationsCreateDone(i, ok, results) ==
  /\ i \in Pending("moderations.create")
  /\ LET h == handlers[i]
         action == moderationDecision(results)
     IN  IF ~ok
         THEN LET r == Throw(h, conversations)
              IN  /\ handlers' = [handlers EXCEPT ![i] = r.h]
                  /\ conversations' = r.convs
                  /\ UNCHANGED moderationActions
         ELSE IF ~logsAction(action)
         THEN LET r == afterModeration(Pop([h EXCEPT !.results = << results >>]),
                                       conversations, "none")
              IN  /\ handlers' = [handlers EXCEPT ![i] = r.h]
                  /\ conversations' = r.convs
                  /\ UNCHANGED moderationActions
         ELSE \* storage.createModerationAction, then executeModerationAction
              /\ moderationActions' =
                   createModerationAction(moderationActions,
                          [userId |-> h.ev.author, type |-> action,
                           reason |-> flaggedCategories(results)])
              /\ handlers' = [handlers EXCEPT ![i] =
                   Await([h EXCEPT !.results = << results >>,
                                   !.action = action,
                                   !.reason = flaggedCategories(results)], "delete")]
              /\ UNCHANGED conversations
  /\ UNCHANGED << lifecycleVars, useOpenAI, botSettings, discordUsers, weatherActive,
                  usage, messages, reminders, callVars, envVars >>

\* moderateMessage returns { action, reason } to the handler.
moderationFinished(h, convs) == afterModeration(Pop(h), convs, h.action)

Effect(h, name, ok) == [h EXCEPT !.effects = Append(@, [effect |-> name, ok |-> ok])]

\* message.member.timeout(10 * 60 * 1000, reason): the duration in ms.
TIMEOUT_MS == 10 * 60 * 1000

\* Variant of switchOnAction that gives up when the deletion failed (C25
\* depends on the deletion having a try block of its own).
switchOnActionIfDeleted(h, convs) ==
  IF ~h.effects[Len(h.effects)].ok THEN moderationFinished(h, convs)
  ELSE IF h.action = "warn" THEN Result(Await(h, "author.send"), convs)
  ELSE IF h.action = "mute" /\ inGuild(h.ev)
    THEN Result(Await([h EXCEPT !.timeout = TIMEOUT_MS], "member.timeout"), convs)
  ELSE moderationFinished(h, convs)

\* executeModerationAction: the switch on the action, entered after the
\* deletion settled either way.
switchOnAction(h, convs) ==
  IF h.action = "warn" THEN Result(Await(h, "author.send"), convs)
  ELSE IF h.action = "mute" /\ inGuild(h.ev)
    THEN Result(Await([h EXCEPT !.timeout = TIMEOUT_MS], "member.timeout"), convs)
  ELSE moderationFinished(h, convs)

\* executeModerationAction: await message.delete() settles (a rejection is
\* logged), then the switch on the action.
DeleteDone(i, ok) ==
  /\ i \in Pending("delete")
  /\ LET h == Effect(handlers[i], "delete", ok)
         r == switchOnAction(h, conversations)
     IN  /\ handlers' = [handlers EXCEPT ![i] = r.h]
         /\ conversations' = r.convs
  /\ UNCHANGED << lifecycleVars, useOpenAI, botSettings, discordUsers,
                  moderationActions, weatherActive, usage, messages, reminders, callVars,
                  envVars >>

\* executeModerationAction: await message.member.timeout(10 * 60 * 1000, reason)
TimeoutDone(i, ok) ==
  /\ i \in Pending("member.timeout")
  /\ LET h == Effect(handlers[i], "timeout", ok)
         r == IF ok THEN Result(Await(h, "author.send"), conversations)
              ELSE moderationFinished(h, conversations)
     IN  /\ handlers' = [handlers EXCEPT ![i] = r.h]
         /\ conversations' = r.convs
  /\ UNCHANGED << lifecycleVars, useOpenAI, botSettings, discordUsers,
                  moderationActions, weatherActive, usage, messages, reminders, callVars,
                  envVars >>

\* executeModerationAction: await message.author.send(...) settles.
AuthorSendDone(i, ok) ==
  /\ i \in Pending("author.send")
  /\ LET h == Effect(handlers[i], "send", ok)
         r == moderationFinished(h, conversations)
     IN  /\ handlers' = [handlers EXCEPT ![i] = r.h]
         /\ conversations' = r.convs
  /\ UNCHANGED << lifecycleVars, useOpenAI, botSettings, discordUsers,
                  moderationActions, weatherActive, usage, messages, reminders, callVars,
                  envVars >>

\* Variant of callsBackend that ignores the flag (C5 depends on the test).
callsBackendAlways(flag) == TRUE

\* bot/nlp line 63: the backend is called only while useOpenAI holds
callsBackend(flag) == flag

\* processNaturalLanguage: the typing indicator settles (a rejection is
\* ignored); the reply is produced by the fallback or the backend is called.
SendTypingDone(i) ==
  /\ i \in Pending("sendTyping")
  /\ LET h == handlers[i]
     IN  handlers' = [handlers EXCEPT ![i] =
           IF ~callsBackend(useOpenAI)
           THEN Reply([h EXCEPT !.mode = "fallback",
                                !.aiResponse = getFallbackResponse(h.ev.content),
                                !.context = << >>],
                      getFallbackResponse(h.ev.content), "addBotMessage")
           ELSE Await([h EXCEPT !.mode = "live", !.attempts = @ + 1,
                                !.sent = formatContextForNLP(h.context),
                                !.context = << >>],
                      "chat.create")]
  /\ UNCHANGED << lifecycleVars, useOpenAI, storeVars, messages, reminders, callVars, envVars >>

\* Variant of responseOf that apologises after a failed backend call (the
\* amended C6 depends on the fallback reply).
responseOrApology(outcome, prompt) ==
  IF outcome.ok THEN contentOrDefault(outcome.content) ELSE NLP_APOLOGY

\* The reply processNaturalLanguage produces when the backend call settles.
responseOf(outcome, prompt) ==
  IF outcome.ok THEN contentOrDefault(outcome.content) ELSE getFallbackResponse(prompt)

\* processNaturalLanguage: await openai.chat.completions.create(...) settles.
ChatCreateDone(i, outcome) ==
  /\ i \in Pending("chat.create")
  /\ LET h == handlers[i]
         aiResponse == responseOf(outcome, h.ev.content)
     IN  handlers' = [handlers EXCEPT ![i] =
           Reply([h EXCEPT !.aiResponse = aiResponse, !.error = outcome.error],
                 aiResponse, "addBotMessage")]
  /\ useOpenAI' = IF outcome.ok THEN useOpenAI ELSE flagAfterError(useOpenAI, outcome.error)
  /\ UNCHANGED << lifecycleVars, storeVars, messages, reminders, callVars, envVars >>

\* The timer of a reminder fires: the callback runs up to
\* await message.author.send(...).
ReminderDue(r) ==
  /\ r \in DOMAIN reminders
  /\ reminders[r].pc = "scheduled"
  /\ reminders' = [reminders EXCEPT ![r].pc = "author.send", ![r].fired = messages]
  /\ UNCHANGED << lifecycleVars, useOpenAI, storeVars, messages, handlers, callVars,
                  envVars >>

\* The callback of a reminder: await message.author.send(...) settles; when
\* it rejects the callback goes on to message.channel.send(...).
ReminderAuthorSendDone(r, ok) ==
  /\ r \in DOMAIN reminders
  /\ reminders[r].pc = "author.send"
  /\ reminders' = [reminders EXCEPT
                     ![r].pc = IF ok THEN "done" ELSE "channel.send",
                     ![r].sends = Append(@, [to |-> "author", ok |-> ok])]
  /\ UNCHANGED << lifecycleVars, useOpenAI, storeVars, messages, handlers, callVars,
                  envVars >>

\* The callback of a reminder: await message.channel.send(...) settles; a
\* rejection is logged.
ReminderChannelSendDone(r, ok) ==
  /\ r \in DOMAIN reminders
  /\ reminders[r].pc = "channel.send"
  /\ reminders' = [reminders EXCEPT
                     ![r].pc = "done",
                     ![r].sends = Append(@, [to |-> "channel", ok |-> ok])]
  /\ UNCHANGED << lifecycleVars, useOpenAI, storeVars, messages, handlers, callVars,
                  envVars >>

(***************************************************************************)
(* bot/nlp: generateResponse and analyzeSentiment, called from outside the *)
(* message handler (POST /api/test/generate calls generateResponse).       *)
(***************************************************************************)
NewCall(kind, input) ==
  [kind |-> kind, input |-> input, pc |-> "done", mode |-> "", attempts |-> 0,
   error |-> "", text |-> "", sentiment |-> [rating |-> 0, confidence |-> [num |-> 0, den |-> 1]]]

PendingCalls(kind) ==
  { k \in DOMAIN calls : calls[k].kind = kind /\ calls[k].pc = "chat.create" }

\* generateResponse(prompt), up to the backend call
GenerateResponse(prompt) ==
  /\ apiCalls < MaxCalls
  /\ apiCalls' = apiCalls + 1
  /\ calls' = Append(Running(calls),
       IF ~callsBackend(useOpenAI)
       THEN [NewCall("generateResponse", prompt) EXCEPT
               !.mode = "fallback", !.text = getFallbackResponse(prompt)]
       ELSE [NewCall("generateResponse", prompt) EXCEPT
               !.mode = "live", !.attempts = 1, !.pc = "chat.create"])
  /\ UNCHANGED << lifecycleVars, useOpenAI, storeVars, handlerVars, tasks, responses,
                  envVars >>

\* generateResponse: await openai.chat.completions.create(...) settles.
GenerateResponseDone(k, outcome) ==
  /\ k \in PendingCalls("generateResponse")
  /\ calls' = [calls EXCEPT ![k] =
       [@ EXCEPT !.pc = "done", !.error = outcome.error,
                 !.text = responseOf(outcome, calls[k].input)]]
  /\ useOpenAI' = IF outcome.ok THEN useOpenAI ELSE flagAfterError(useOpenAI, outcome.error)
  /\ UNCHANGED << lifecycleVars, storeVars, handlerVars, apiCalls, tasks,
                  responses, envVars >>

\* analyzeSentiment(text), up to the backend call
AnalyzeSentiment(text) ==
  /\ apiCalls < MaxCalls
  /\ apiCalls' = apiCalls + 1
  /\ calls' = Append(Running(calls),
       IF ~callsBackend(useOpenAI)
       THEN [NewCall("analyzeSentiment", text) EXCEPT
               !.mode = "fallback", !.sentiment = getFallbackSentiment(text)]
       ELSE [NewCall("analyzeSentiment", text) EXCEPT
               !.mode = "live", !.attempts = 1, !.pc = "chat.create"])
  /\ UNCHANGED << lifecycleVars, useOpenAI, storeVars, handlerVars, tasks, responses,
                  envVars >>

\* rating: Math.max(1, Math.min(5, Math.round(result.rating)));
\* confidence: Math.max(0, Math.min(1, result.confidence))
clampSentiment(payload) ==
  [rating |-> Max(1, Min(5, payload.rating)),
   confidence |-> [num |-> Max(0, Min(10, payload.confidence)), den |-> 10]]

\* analyzeSentiment: the backend call settles.  A completion that resolved
\* carries payload; JSON.parse throws on one that does not parse.
AnalyzeSentimentDone(k, outcome, payload) ==
  /\ k \in PendingCalls("analyzeSentiment")
  /\ LET error == IF ~outcome.ok THEN outcome.error
                  ELSE IF ~payload.parses THEN ERR_SYNTAX ELSE ""
     IN  /\ calls' = [calls EXCEPT ![k] =
               [@ EXCEPT !.pc = "done", !.error = error,
                         !.sentiment = IF error = "" THEN clampSentiment(payload)
                                       ELSE getFallbackSentiment(calls[k].input)]]
         /\ useOpenAI' = IF error = "" THEN useOpenAI ELSE flagAfterError(useOpenAI, error)
  /\ UNCHANGED << lifecycleVars, storeVars, handlerVars, apiCalls, tasks,
                  responses, envVars >>

(***************************************************************************)
(* bot/context and MemStorage followed await by await.  A task is one call *)
(* of processNaturalLanguage; each action below runs it from the           *)
(* resumption of one await to the next await.  An async method of          *)
(* MemStorage reads and writes the store when it is called, up to its own  *)
(* first await; the caller resumes in a later step with the value it was   *)
(* given then.                                                             *)
(***************************************************************************)
\* The conversation object a caller holds: its id (0 for undefined) and the
\* context the object had when it was handed out.
Held(convs, id) ==
  [id |-> id, context |-> IF id = 0 THEN << >> ELSE convs[id].context]

NewTask(userId, content, settings) ==
  [userId |-> userId, content |-> content, aiResponse |-> AI_TEXT,
   op |-> "addUserMessage", pc |-> "getBotSettings", botSettings |-> settings,
   conversation |-> [id |-> 0, context |-> << >>], updatedContext |-> << >>,
   \* history of the task: the messages whose update it has stored
   appended |-> << >>]

\* The number of updates the tasks have stored so far.
RECURSIVE storedUpdates(_)
storedUpdates(ts) ==
  IF ts = << >> THEN 0 ELSE Len(Head(ts).appended) + storedUpdates(Tail(ts))

\* addUserMessage and addBotMessage: the context passed to
\* updateConversation, built on the conversation object held.
contextMessageAdded(task, convs) ==
  LET message == [role |-> IF task.op = "addUserMessage" THEN "user" ELSE "assistant",
                  content |-> IF task.op = "addUserMessage" THEN task.content
                              ELSE task.aiResponse,
                  timestamp |-> newDate(convs)]
      held == task.conversation.context
  IN  limitContext(Append(held, message), contextSizeOf(task.botSettings))

\* The operation of a task returns: after addUserMessage the task goes on
\* to getContext and to the external calls up to message.reply; after
\* addBotMessage processNaturalLanguage returns.
Returns(task, convs) ==
  IF task.op = "addUserMessage"
  THEN Result([task EXCEPT !.pc = "reply"], getContext(convs, botSettings, task.userId).convs)
  ELSE Result([task EXCEPT !.pc = "done"], convs)

AtTask(pc) == { t \in DOMAIN tasks : tasks[t].pc = pc }

taskFrame ==
  UNCHANGED << lifecycleVars, useOpenAI, botSettings, discordUsers, moderationActions,
               weatherActive, usage, handlerVars, apiCalls, calls, responses, envVars >>

\* processNaturalLanguage(message) is called: addUserMessage runs up to
\* await storage.getBotSettings().
ProcessNaturalLanguage(userId, content) ==
  /\ Len(tasks) < MaxTasks
  /\ tasks' = Append(tasks, NewTask(userId, content, botSettings))
  /\ UNCHANGED conversations
  /\ taskFrame

\* await storage.getBotSettings() resumes: the operation returns when
\* context awareness is off and calls getActiveConversationByUserId otherwise.
GetBotSettingsResumes(t) ==
  /\ t \in AtTask("getBotSettings")
  /\ LET task == tasks[t]
         r == IF ~task.botSettings.contextAwareness
              THEN Returns(task, conversations)
              ELSE Result([task EXCEPT
                             !.pc = "getActiveConversationByUserId",
                             !.conversation =
                                Held(conversations,
                                     getActiveConversationByUserId(conversations,
                                                                   task.userId))],
                          conversations)
     IN  /\ tasks' = [tasks EXCEPT ![t] = r.h]
         /\ conversations' = r.convs
  /\ taskFrame

\* await storage.getActiveConversationByUserId(userId) resumes.  Without a
\* conversation addUserMessage calls createConversation and addBotMessage
\* returns; with one, the context is built and updateConversation is called,
\* which runs up to its await this.getConversation(id).
GetActiveConversationResumes(t) ==
  /\ t \in AtTask("getActiveConversationByUserId")
  /\ LET task == tasks[t]
         r == IF task.conversation.id # 0
              THEN Result([task EXCEPT
                             !.pc = "getConversation",
                             !.updatedContext = contextMessageAdded(task, conversations)],
                          conversations)
              ELSE IF task.op = "addUserMessage"
              THEN Result([task EXCEPT
                             !.pc = "createConversation",
                             !.conversation =
                                [id |-> Len(conversations) + 1, context |-> << >>]],
                          createConversation(conversations, task.userId))
              ELSE Returns(task, conversations)
     IN  /\ tasks' = [tasks EXCEPT ![t] = r.h]
         /\ conversations' = r.convs
  /\ taskFrame

\* await storage.createConversation(...) resumes: the context is built and
\* updateConversation is called.
CreateConversationResumes(t) ==
  /\ t \in AtTask("createConversation")
  /\ tasks' = [tasks EXCEPT ![t] =
       [@ EXCEPT !.pc = "getConversation",
                 !.updatedContext = contextMessageAdded(tasks[t], conversations)]]
  /\ UNCHANGED conversations
  /\ taskFrame

\* updateConversation: await this.getConversation(id) resumes and the
\* conversation is stored with the context it was given.
GetConversationResumes(t) ==
  /\ t \in AtTask("getConversation")
  /\ LET task == tasks[t]
     IN  /\ conversations' =
               updateConversation(conversations, task.conversation.id, task.updatedContext)
         /\ tasks' = [tasks EXCEPT ![t] =
               [@ EXCEPT !.pc = "updateConversation",
                         !.appended =
                            Append(@, [message |-> task.updatedContext[Len(task.updatedContext)],
                                       order |-> storedUpdates(tasks) + 1])]]
  /\ taskFrame

\* await storage.updateConversation(...) resumes: the operation returns.
UpdateConversationResumes(t) ==
  /\ t \in AtTask("updateConversation")
  /\ LET r == Returns(tasks[t], conversations)
     IN  /\ tasks' = [tasks EXCEPT ![t] = r.h]
         /\ conversations' = r.convs
  /\ taskFrame

\* await message.reply(aiResponse) settles: addBotMessage is called and runs
\* up to await storage.getBotSettings(); after a rejection the catch block
\* apologises and processNaturalLanguage returns.
TaskReplyDone(t, ok) ==
  /\ t \in AtTask("reply")
  /\ tasks' = [tasks EXCEPT ![t] =
       IF ok
       THEN [@ EXCEPT !.op = "addBotMessage", !.pc = "getBotSettings",
                      !.botSettings = botSettings]
       ELSE [@ EXCEPT !.pc = "done"]]
  /\ UNCHANGED conversations
  /\ taskFrame

(***************************************************************************)
(* The dashboard routes that change the store, and the context-manager     *)
(* operations bot/context exports.                                         *)
(***************************************************************************)
\* PATCH /api/settings and POST /api/settings/toggle: storage.updateBotSettings
UpdateBotSettings(settings) ==
  /\ settingsUpdates < MaxSettingsUpdates
  /\ settings # botSettings
  /\ botSettings' = settings
  /\ settingsUpdates' = settingsUpdates + 1
  /\ UNCHANGED << lifecycleVars, useOpenAI, discordUsers, conversations,
                  moderationActions, weatherActive, usage, handlerVars, callVars,
                  contextOps, lastOp >>

\* POST /api/integrations/:id/toggle for the Weather API
ToggleApiIntegration ==
  /\ settingsUpdates < MaxSettingsUpdates
  /\ weatherActive' = ~weatherActive
  /\ settingsUpdates' = settingsUpdates + 1
  /\ UNCHANGED << lifecycleVars, useOpenAI, botSettings, discordUsers, conversations,
                  moderationActions, usage, handlerVars, callVars, contextOps, lastOp >>

\* updateContext(userId, newContextSize)
UpdateContext(userId, newContextSize) ==
  /\ contextOps < MaxContextOps
  /\ contextOps' = contextOps + 1
  /\ conversations' = updateContext(conversations, userId, newContextSize)
  /\ lastOp' = ContextOp("updateContext", userId, newContextSize, TRUE)
  /\ UNCHANGED << lifecycleVars, useOpenAI, botSettings, discordUsers,
                  moderationActions, weatherActive, usage, handlerVars, callVars,
                  settingsUpdates >>

\* closeConversation(userId)
CloseConversation(userId) ==
  /\ contextOps < MaxContextOps
  /\ contextOps' = contextOps + 1
  /\ conversations' = closeConversation(conversations, userId).convs
  /\ lastOp' = ContextOp("closeConversation", userId, 0,
                          closeConversation(conversations, userId).result)
  /\ UNCHANGED << lifecycleVars, useOpenAI, botSettings, discordUsers,
                  moderationActions, weatherActive, usage, handlerVars, callVars,
                  settingsUpdates >>

\* getContext(userId), called directly: the value returned is kept in lastOp.
GetContext(userId) ==
  /\ contextOps < MaxContextOps
  /\ contextOps' = contextOps + 1
  /\ LET got == getContext(conversations, botSettings, userId)
     IN  /\ conversations' = got.convs
         /\ lastOp' = [ContextOp("getContext", userId, 0, TRUE) EXCEPT
                         !.returned = got.context]
  /\ UNCHANGED << lifecycleVars, useOpenAI, botSettings, discordUsers,
                  moderationActions, weatherActive, usage, handlerVars, callVars,
                  settingsUpdates >>

\* addUserMessage(message), called directly for a message of userId.
AddUserMessage(userId, content) ==
  /\ contextOps < MaxContextOps
  /\ contextOps' = contextOps + 1
  /\ conversations' = addUserMessage(conversations, botSettings, userId, content)
  /\ lastOp' = [ContextOp("addUserMessage", userId, 0, TRUE) EXCEPT !.content = content]
  /\ UNCHANGED << lifecycleVars, useOpenAI, botSettings, discordUsers,
                  moderationActions, weatherActive, usage, handlerVars, callVars,
                  settingsUpdates >>

\* addBotMessage(userId, content), called directly.
AddBotMessage(userId, content) ==
  /\ contextOps < MaxContextOps
  /\ contextOps' = contextOps + 1
  /\ conversations' = addBotMessage(conversations, botSettings, userId, content)
  /\ lastOp' = [ContextOp("addBotMessage", userId, 0, TRUE) EXCEPT !.content = content]
  /\ UNCHANGED << lifecycleVars, useOpenAI, botSettings, discordUsers,
                  moderationActions, weatherActive, usage, handlerVars, callVars,
                  settingsUpdates >>

(***************************************************************************)
(* bot/index: startBot, the login promise, the ClientReady listener and    *)
(* stopBot.                                                                *)
(***************************************************************************)
Login(c, retry) == [client |-> c, retry |-> retry]

LoginErrors == { "TokenInvalid", "DisallowedIntents", "Other" }

\* startBot()
StartBot ==
  /\ starts < MaxStarts
  /\ starts' = starts + 1
  /\ IF ~hasToken
     THEN /\ isReady' = TRUE
          /\ UNCHANGED logins
     ELSE /\ logins' = logins \cup { Login(client, FALSE) }
          /\ UNCHANGED isReady
  /\ UNCHANGED << client, online, readyListener, hasToken, apiKey, useOpenAI, storeVars,
                  handlerVars, callVars, envVars >>

\* client.login(token) resolves: the client is logged in and emits
\* ClientReady, which the once-listener registered on fullIntentClient handles.
LoginResolved(l) ==
  /\ l \in logins
  /\ logins' = logins \ { l }
  /\ online' = online \cup { l.client }
  /\ IF l.client \in MessageCreateListeners /\ readyListener
     THEN /\ isReady' = TRUE
          /\ readyListener' = FALSE
     ELSE UNCHANGED << isReady, readyListener >>
  /\ UNCHANGED << client, starts, hasToken, apiKey, useOpenAI, storeVars, handlerVars,
                  callVars, envVars >>

\* client.login(token) rejects (the client that failed to log in is
\* destroyed): the catch of startBot, or the catch of its retry.
LoginRejected(l, code) ==
  /\ l \in logins
  /\ online' = online \ { l.client }
  /\ IF l.retry
     THEN /\ logins' = logins \ { l }
          /\ UNCHANGED << client, isReady >>
     ELSE /\ isReady' = TRUE
          /\ IF code = "DisallowedIntents"
             THEN /\ client' = "reduced"
                  /\ logins' = (logins \ { l }) \cup { Login("reduced", TRUE) }
             ELSE /\ logins' = logins \ { l }
                  /\ UNCHANGED client
  /\ UNCHANGED << readyListener, starts, hasToken, apiKey, useOpenAI, storeVars, handlerVars,
                  callVars, envVars >>

\* stopBot()
StopBot ==
  /\ online' = online \ { client }
  /\ isReady' = FALSE
  /\ UNCHANGED << client, readyListener, logins, starts, hasToken, apiKey, useOpenAI,
                  storeVars, handlerVars, callVars, envVars >>

(***************************************************************************)
(* The specification.                                                      *)
(***************************************************************************)
ModerationOutcomes ==
  { [ok |-> TRUE, results |-> r] : r \in ScorerResults } \cup
  { [ok |-> FALSE, results |-> ScorerResult(FALSE, Flags(FALSE, FALSE, FALSE), Scores(0, 0, 0))] }
\* The request bodies of POST /api/moderation: each field present or
\* missing (""), the type valid or not.
ValidTypes == { "warn", "mute", "kick", "ban" }
Bodies == [userId : Users \cup { "" },
           type : ValidTypes \cup { "delete", "" },
           reason : { "spam", "" }]

\* moderation.moderateUser(userId, action, reason): the log after the call
\* (the store does not reject, so the call returns true).
moderateUser(actions, userId, action, reason) ==
  createModerationAction(actions, [userId |-> userId, type |-> action, reason |-> reason])

\* POST /api/moderation
PostModeration(body) ==
  /\ Len(responses) < MaxRequests
  /\ IF ~Truthy(body.userId) \/ ~Truthy(body.type) \/ ~Truthy(body.reason)
     THEN /\ responses' = Append(responses, [status |-> 400, action |-> body])
          /\ UNCHANGED moderationActions
     ELSE IF body.type \notin ValidTypes
     THEN /\ responses' = Append(responses, [status |-> 400, action |-> body])
          /\ UNCHANGED moderationActions
     ELSE LET action == createModerationAction(moderationActions, body)
              executed == moderateUser(action, body.userId, body.type, body.reason)
          IN  /\ moderationActions' = executed
              /\ responses' = Append(responses, [status |-> 201, action |-> action[Len(action)]])
  /\ UNCHANGED << lifecycleVars, useOpenAI, botSettings, discordUsers, conversations,
                  weatherActive, usage, handlerVars, apiCalls, calls, tasks, envVars >>

\* The steps of the tasks.
TaskNext ==
  \/ \E userId \in Users, content \in Contents : ProcessNaturalLanguage(userId, content)
  \/ \E t \in DOMAIN tasks : GetBotSettingsResumes(t)
  \/ \E t \in DOMAIN tasks : GetActiveConversationResumes(t)
  \/ \E t \in DOMAIN tasks : CreateConversationResumes(t)
  \/ \E t \in DOMAIN tasks : GetConversationResumes(t)
  \/ \E t \in DOMAIN tasks : UpdateConversationResumes(t)
  \/ \E t \in DOMAIN tasks, ok \in BOOLEAN : TaskReplyDone(t, ok)
\* The dashboard's manual moderation.
RoutesNext ==
  \/ \E body \in Bodies : PostModeration(body)

Next ==
  \/ TaskNext
  \/ RoutesNext
  \/ \E ev \in Events \cup RemindEvents, via \in { "full", "reduced" }, envKey \in BOOLEAN :
       MessageCreate(ev, via, envKey)
  \/ \E r \in DOMAIN reminders : ReminderDue(r)
  \/ \E r \in DOMAIN reminders, ok \in BOOLEAN : ReminderAuthorSendDone(r, ok)
  \/ \E r \in DOMAIN reminders, ok \in BOOLEAN : ReminderChannelSendDone(r, ok)
  \/ \E i \in DOMAIN handlers, ok \in BOOLEAN : ReplyDone(i, ok)
  \/ \E i \in DOMAIN handlers, outcome \in { "data", "empty", "error" } : AxiosGetDone(i, outcome)
  \/ \E i \in DOMAIN handlers, o \in ModerationOutcomes : ModerationsCreateDone(i, o.ok, o.results)
  \/ \E i \in DOMAIN handlers, ok \in BOOLEAN : DeleteDone(i, ok)
  \/ \E i \in DOMAIN handlers, ok \in BOOLEAN : TimeoutDone(i, ok)
  \/ \E i \in DOMAIN handlers, ok \in BOOLEAN : AuthorSendDone(i, ok)
  \/ \E i \in DOMAIN handlers : SendTypingDone(i)
  \/ \E i \in DOMAIN handlers, outcome \in ChatOutcomes : ChatCreateDone(i, outcome)
  \/ \E prompt \in Prompts : GenerateResponse(prompt)
  \/ \E k \in DOMAIN calls, outcome \in ChatOutcomes : GenerateResponseDone(k, outcome)
  \/ \E text \in SentimentTexts : AnalyzeSentiment(text)
  \/ \E k \in DOMAIN calls, outcome \in ChatOutcomes, payload \in SentimentPayloads :
       AnalyzeSentimentDone(k, outcome, payload)
  \/ \E settings \in SettingsSpace : UpdateBotSettings(settings)
  \/ ToggleApiIntegration
  \/ \E userId \in Users, size \in ContextSizes : UpdateContext(userId, size)
  \/ \E userId \in Users : CloseConversation(userId)
  \/ \E userId \in Users : GetContext(userId)
  \/ \E userId \in Users, content \in Contents : AddUserMessage(userId, content)
  \/ \E userId \in Users, content \in Contents : AddBotMessage(userId, content)
  \/ StartBot
  \/ \E l \in logins : LoginResolved(l)
  \/ \E l \in logins, code \in LoginErrors : LoginRejected(l, code)
  \/ StopBot

Spec == Init /\ [][Next]_vars

(***************************************************************************)
(* Component specifications: the same initial state and the same actions,  *)
(* each with the part of the environment one component of the bot reacts   *)
(* to.                                                                     *)
(***************************************************************************)
\* The settings the dashboard switches to in the component specifications.
ModerationOff == Settings(TRUE, FALSE, DEFAULT_CONTEXT_SIZE)

\* The dispatcher: the life cycle of the clients, every event, every step of
\* the handlers, auto-moderation switched off and the Weather API toggled.
DispatcherNext ==
  \/ \E ev \in Events, via \in { "full", "reduced" }, envKey \in BOOLEAN :
       MessageCreate(ev, via, envKey)
  \/ \E i \in DOMAIN handlers, ok \in BOOLEAN : ReplyDone(i, ok)
  \/ \E i \in DOMAIN handlers, outcome \in { "data", "empty", "error" } : AxiosGetDone(i, outcome)
  \/ \E i \in DOMAIN handlers, o \in ModerationOutcomes : ModerationsCreateDone(i, o.ok, o.results)
  \/ \E i \in DOMAIN handlers, ok \in BOOLEAN : DeleteDone(i, ok)
  \/ \E i \in DOMAIN handlers, ok \in BOOLEAN : TimeoutDone(i, ok)
  \/ \E i \in DOMAIN handlers, ok \in BOOLEAN : AuthorSendDone(i, ok)
  \/ \E i \in DOMAIN handlers : SendTypingDone(i)
  \/ \E i \in DOMAIN handlers, outcome \in ChatOutcomes : ChatCreateDone(i, outcome)
  \/ UpdateBotSettings(ModerationOff)
  \/ ToggleApiIntegration
  \/ StartBot
  \/ \E l \in logins : LoginResolved(l)
  \/ \E l \in logins, code \in LoginErrors : LoginRejected(l, code)
  \/ StopBot

SpecDispatcher == Init /\ [][DispatcherNext]_vars

\* The dispatcher with a gateway that settles every login: a pending
\* client.login promise is resolved or rejected in the end.
SpecDispatcherLive ==
  /\ SpecDispatcher
  /\ WF_vars(\E l \in logins : LoginResolved(l) \/ \E code \in LoginErrors : LoginRejected(l, code))

\* The events whose route is the responder whatever the settings are.
RespondEvents ==
  { ev \in Events : /\ ~ev.bot
                    /\ isCommand(ev.content)
                    /\ commandNameOf(ev.content, PREFIX) # << >>
                    /\ commandNameOf(ev.content, PREFIX) \notin commands }

\* The responder: the bot logs in, messages for the responder arrive, and the
\* dashboard calls generateResponse and analyzeSentiment and changes settings.
ResponderNext ==
  \/ \E ev \in RespondEvents, envKey \in BOOLEAN : MessageCreate(ev, "full", envKey)
  \/ \E i \in DOMAIN handlers, ok \in BOOLEAN : ReplyDone(i, ok)
  \/ \E i \in DOMAIN handlers : SendTypingDone(i)
  \/ \E i \in DOMAIN handlers, outcome \in ChatOutcomes : ChatCreateDone(i, outcome)
  \/ \E prompt \in Prompts : GenerateResponse(prompt)
  \/ \E k \in DOMAIN calls, outcome \in ChatOutcomes : GenerateResponseDone(k, outcome)
  \/ \E text \in SentimentTexts : AnalyzeSentiment(text)
  \/ \E k \in DOMAIN calls, outcome \in ChatOutcomes, payload \in SentimentPayloads :
       AnalyzeSentimentDone(k, outcome, payload)
  \/ StartBot
  \/ \E l \in logins : LoginResolved(l)

SpecResponder == Init /\ [][ResponderNext]_vars

\* The context manager: the bot logs in, messages for the responder arrive,
\* the dashboard changes the settings, and the context is resized or closed.
ContextNext ==
  \/ \E ev \in RespondEvents, envKey \in BOOLEAN : MessageCreate(ev, "full", envKey)
  \/ \E i \in DOMAIN handlers, ok \in BOOLEAN : ReplyDone(i, ok)
  \/ \E i \in DOMAIN handlers : SendTypingDone(i)
  \/ \E i \in DOMAIN handlers, outcome \in ChatOutcomes : ChatCreateDone(i, outcome)
  \/ \E settings \in SettingsSpace : UpdateBotSettings(settings)
  \/ \E userId \in Users, size \in ContextSizes : UpdateContext(userId, size)
  \/ \E userId \in Users : CloseConversation(userId)
  \/ StartBot
  \/ \E l \in logins : LoginResolved(l)

SpecContext == Init /\ [][ContextNext]_vars
\* The dispatcher over a store whose calls can reject during the
\* bookkeeping of the user.
StorageFaultNext ==
  \/ \E ev \in Events, envKey \in BOOLEAN : MessageCreate(ev, "full", envKey)
  \/ \E ev \in Events : MessageCreateStorageRejects(ev, "full")
  \/ \E i \in DOMAIN handlers, ok \in BOOLEAN : ReplyDone(i, ok)
  \/ \E i \in DOMAIN handlers, outcome \in { "data", "empty", "error" } : AxiosGetDone(i, outcome)
  \/ \E i \in DOMAIN handlers, o \in ModerationOutcomes : ModerationsCreateDone(i, o.ok, o.results)
  \/ \E i \in DOMAIN handlers, ok \in BOOLEAN : DeleteDone(i, ok)
  \/ \E i \in DOMAIN handlers, ok \in BOOLEAN : TimeoutDone(i, ok)
  \/ \E i \in DOMAIN handlers, ok \in BOOLEAN : AuthorSendDone(i, ok)
  \/ \E i \in DOMAIN handlers : SendTypingDone(i)
  \/ \E i \in DOMAIN handlers, outcome \in ChatOutcomes : ChatCreateDone(i, outcome)
  \/ StartBot
  \/ \E l \in logins : LoginResolved(l)

SpecStorageFaults == Init /\ [][StorageFaultNext]_vars

\* The events of the reminders: the remind commands and a command that
\* schedules nothing.
ReminderEvents == RemindEvents \cup { Event("u1", FALSE, "!Help", FALSE, TRUE) }

\* The reminders: the bot logs in, remind commands and other commands
\* arrive, their replies settle, and the timers fire.
ReminderNext ==
  \/ \E ev \in ReminderEvents, envKey \in BOOLEAN : MessageCreate(ev, "full", envKey)
  \/ \E i \in DOMAIN handlers, ok \in BOOLEAN : ReplyDone(i, ok)
  \/ \E r \in DOMAIN reminders : ReminderDue(r)
  \/ \E r \in DOMAIN reminders, ok \in BOOLEAN : ReminderAuthorSendDone(r, ok)
  \/ \E r \in DOMAIN reminders, ok \in BOOLEAN : ReminderChannelSendDone(r, ok)
  \/ StartBot
  \/ \E l \in logins : LoginResolved(l)

SpecReminder == Init /\ [][ReminderNext]_vars

\* The context manager under processNaturalLanguage calls that interleave
\* at every await.
SpecInterleaved == Init /\ [][TaskNext]_vars

\* The manual moderation route alone.
SpecRoutes == Init /\ [][RoutesNext]_vars

(***************************************************************************)
(* Properties of the context manager and of the responder.                 *)
(***************************************************************************)
\* The record of the event delivered, or of the call made, most recently.
Latest(records) == records[Len(records)]

\* The number of backend calls of bot/nlp that have not settled.
InFlight ==
  Cardinality(Pending("chat.create")) +
  Cardinality({ k \in DOMAIN calls : calls[k].pc = "chat.create" })

\* C1: in every reachable state the stored window of every active
\* conversation has at most 2 x contextSize entries, contextSize being the
\* value currently in the settings.
C1_WindowWithinSettings ==
  \A id \in DOMAIN conversations :
    conversations[id].active =>
      Len(conversations[id].context) <= 2 * contextSizeOf(botSettings)

\* C2: the availability of the backend is one-way: once useOpenAI is false,
\* no step of processNaturalLanguage, generateResponse or analyzeSentiment,
\* successful or failing, makes it true again.
C2_FallbackIsPermanent == [][useOpenAI = FALSE => useOpenAI' = FALSE]_vars

\* The flag is off, after a backend call failed for the quota and another
\* one, made while the backend was on, failed for another reason.
C2_Witness ==
  /\ useOpenAI = FALSE
  /\ \E i \in DOMAIN handlers : handlers[i].error \in { ERR_QUOTA, ERR_RATE }
  /\ \E k \in DOMAIN calls :
       calls[k].pc = "done" /\ calls[k].mode = "live" /\ calls[k].error = ERR_TRANSIENT

\* C4: when the backend call of processNaturalLanguage, made while useOpenAI
\* was true, fails with a quota or rate-limit error, useOpenAI is false from
\* then on, the reply to that message is the non-empty fallback reply, and
\* the backend was called exactly once for the message.
C4_LimitErrorFallsBack ==
  \A i \in DOMAIN handlers :
    LET h == handlers[i]
    IN  h.error \in { ERR_QUOTA, ERR_RATE } =>
          /\ useOpenAI = FALSE
          /\ h.mode = "live"
          /\ h.attempts = 1
          /\ h.aiResponse = getFallbackResponse(h.ev.content)
          /\ h.aiResponse # ""
          /\ h.replies = << >> => h.pc = "reply" /\ h.sending = h.aiResponse
          /\ h.replies # << >> => h.replies[1].text = h.aiResponse

\* A message whose backend call hit the rate limit was answered with the
\* fallback reply.
C4_Witness ==
  \E i \in DOMAIN handlers :
    /\ handlers[i].error = ERR_RATE
    /\ handlers[i].pc = "done"
    /\ handlers[i].replies =
         << [text |-> getFallbackResponse(handlers[i].ev.content), ok |-> TRUE] >>

\* C5: while useOpenAI is false no step starts a backend call; a
\* generateResponse or analyzeSentiment call made then returns at once with
\* the fallback result, and processNaturalLanguage goes on to reply with the
\* non-empty fallback reply.
C5_FallbackMakesNoBackendCall ==
  [][useOpenAI = FALSE =>
       /\ InFlight' <= InFlight
       /\ apiCalls' # apiCalls =>
            LET c == Latest(calls')
            IN  /\ c.pc = "done" /\ c.mode = "fallback" /\ c.attempts = 0
                /\ c.kind = "generateResponse" => c.text = getFallbackResponse(c.input)
                /\ c.kind = "generateResponse" => c.text # ""
                /\ c.kind = "analyzeSentiment" => c.sentiment = getFallbackSentiment(c.input)
                /\ c.kind = "analyzeSentiment" => c.sentiment.rating \in 1..5
       /\ messages' = messages =>
            \A i \in Pending("sendTyping") :
              handlers'[i].pc # "sendTyping" =>
                /\ handlers'[i].pc = "reply"
                /\ handlers'[i].attempts = 0
                /\ handlers'[i].sending = getFallbackResponse(handlers[i].ev.content)
                /\ handlers'[i].sending # ""
  ]_vars

\* With the flag off, a generateResponse or analyzeSentiment call returned the
\* fallback result and a message was answered without any backend call.
C5_Witness ==
  /\ useOpenAI = FALSE
  /\ \E k \in DOMAIN calls : calls[k].pc = "done" /\ calls[k].mode = "fallback"
  /\ \E i \in DOMAIN handlers :
       /\ handlers[i].pc = "done" /\ handlers[i].mode = "fallback"
       /\ handlers[i].attempts = 0
       /\ handlers[i].replies # << >>

\* The step in which the backend call of handler i fails with an error that
\* is neither the quota nor the rate limit.
TransientFailure(i) ==
  /\ messages' = messages
  /\ i \in Pending("chat.create")
  /\ handlers'[i].pc # "chat.create"
  /\ handlers'[i].error = ERR_TRANSIENT

namesCommand(ev) ==
  /\ startsWith(Chars(ev.content), Chars(PREFIX))
  /\ commandNameOf(ev.content, PREFIX) \in commands

\* C3: with autoModeration on and the content readable, a message that is no
\* command and that moderateMessage was consulted about ends without an NLP
\* call if and only if moderateMessage returned an action other than 'none';
\* when it returned 'none', the message goes to processNaturalLanguage
\* whenever it mentions the bot or is a DM.
C3_NoneVerdictContinues ==
  \A i \in DOMAIN handlers :
    LET h == handlers[i]
    IN  /\ h.verdict \notin { "", "none" } => h.nlp = 0
        /\ h.verdict = "none" /\ (h.ev.isMentioned \/ h.ev.isDM) => h.nlp = 1

\* C7: a message that starts with the prefix and names a registered command
\* goes to the command, whose handler runs: a weather command for a location
\* is answered with the notice that the service is unavailable when the
\* Weather API integration is inactive; for that message moderateMessage is
\* not called, no moderation action is recorded and processNaturalLanguage
\* is not called.
C7_CommandBeforeModeration ==
  [][/\ \A i \in DOMAIN handlers' :
          LET h == handlers'[i]
          IN  h.accepted /\ h.priv /\ namesCommand(h.ev) =>
                /\ h.cmd = commandNameOf(h.ev.content, PREFIX)
                /\ h.modCalls = 0 /\ h.verdict = "" /\ h.action = "none"
                /\ h.nlp = 0 /\ h.attempts = 0
     /\ messages' # messages =>
          LET h == Latest(handlers')
          IN  ( /\ h.accepted /\ h.priv
                /\ commandNameOf(h.ev.content, PREFIX) = Chars("weather")
                /\ startsWith(Chars(h.ev.content), Chars(PREFIX))
                /\ commandArgsOf(h.ev.content, PREFIX) # << >>
                /\ ~weatherActive ) =>
                h.pc = "reply" /\ h.sending = W_UNAVAILABLE
     /\ ( /\ handlers # << >>
          /\ \A i \in DOMAIN handlers :
               handlers[i].pc # "done" => handlers[i].accepted /\ namesCommand(handlers[i].ev)
          /\ messages' = messages ) =>
          moderationActions' = moderationActions
  ]_vars

\* A weather command for a location was answered, the integration being
\* inactive, with the notice that the service is unavailable.
C7_Witness ==
  \E i \in DOMAIN handlers :
    /\ handlers[i].pc = "done"
    /\ handlers[i].cmd = Chars("weather")
    /\ handlers[i].replies = << [text |-> W_UNAVAILABLE, ok |-> TRUE] >>
    /\ moderationActions = << >>

\* C8: while the client in use cannot read the content of messages, a
\* message that is a DM or mentions the bot is answered with the
\* limited-permissions reply whatever its content is.
C8_LimitedReply ==
  [][messages' # messages =>
       LET h == Latest(handlers')
       IN  ( /\ client = "reduced" /\ isReady
             /\ ~h.ev.bot
             /\ h.ev.isMentioned \/ h.ev.isDM ) =>
             h.pc = "reply" /\ h.sending = LIMITED_REPLY
  ]_vars

\* C9: a message whose author is a bot is ignored: the user is not stored,
\* no command runs, moderateMessage is not called and no action is recorded,
\* the conversations are not changed and nothing is sent.
C9_BotAuthorIgnored ==
  [][/\ \A i \in DOMAIN handlers' :
          LET h == handlers'[i]
          IN  h.ev.bot =>
                /\ h.pc = "done" /\ ~h.accepted /\ ~h.stored
                /\ h.cmd = << >> /\ h.modCalls = 0 /\ h.action = "none"
                /\ h.nlp = 0 /\ h.replies = << >> /\ h.effects = << >>
     /\ messages' # messages /\ Latest(handlers').ev.bot =>
          UNCHANGED << discordUsers, conversations, moderationActions, usage >>
  ]_vars

\* A message of a bot arrived through the client that has the listener while
\* the bot was ready, and was ignored.
C9_Witness ==
  /\ isReady
  /\ handlers # << >>
  /\ Latest(handlers).ev.bot
  /\ Latest(handlers).via \in MessageCreateListeners
  /\ messages = 1
  /\ discordUsers = {}

\* The routes a handler has taken: the execution of a command, a moderation
\* action, a call of processNaturalLanguage.
routesTaken(h) ==
  { r \in { "command", "moderate", "respond" } :
      \/ r = "command" /\ h.cmd # << >>
      \/ r = "moderate" /\ h.action # "none"
      \/ r = "respond" /\ h.nlp > 0 }

\* C10: every event takes one route: no message leads to two of the
\* execution of a command, a moderation action and an NLP reply.
C10_OneRoute ==
  \A i \in DOMAIN handlers :
    /\ Cardinality(routesTaken(handlers[i])) <= 1
    /\ ~handlers[i].accepted => routesTaken(handlers[i]) = {}

\* A message that mentions the bot was moderated, its moderation action was
\* carried out, and it did not go to processNaturalLanguage.
C10_Witness ==
  \E i \in DOMAIN handlers :
    /\ handlers[i].pc = "done"
    /\ handlers[i].ev.isMentioned
    /\ handlers[i].action # "none"
    /\ handlers[i].effects # << >>
    /\ routesTaken(handlers[i]) = { "moderate" }

(***************************************************************************)
(* Properties of the error handling of the dispatcher.                     *)
(***************************************************************************)
\* In this step the reply handler i awaited was rejected.
ReplyRejected(i) ==
  /\ messages' = messages
  /\ i \in Pending("reply")
  /\ Len(handlers'[i].replies) = Len(handlers[i].replies) + 1
  /\ ~Latest(handlers'[i].replies).ok

\* C11: no failure of a route leaves the MessageCreate handler: every call
\* a handler awaits is inside a try block; a rejected reply that reaches the
\* catch of the handler is answered with an attempt to send the generic
\* apology, and when an apology is rejected the handler ends.
C11_FailuresStayInside ==
  [][/\ \A i \in DOMAIN handlers' :
          handlers'[i].pc # "done" => handlers'[i].catch # << >>
     /\ \A i \in DOMAIN handlers :
          /\ ReplyRejected(i) /\ Latest(handlers[i].catch) = "index" =>
               /\ handlers'[i].pc = "reply"
               /\ handlers'[i].sending = INDEX_APOLOGY
               /\ handlers'[i].catch = << "logged" >>
          /\ ( /\ ReplyRejected(i)
               /\ handlers[i].sending \in { INDEX_APOLOGY, NLP_APOLOGY }
               /\ Latest(handlers[i].catch) = "logged" ) =>
               handlers'[i].pc = "done"
  ]_vars

\* The reply of a command, the error reply of handleCommand and the apology
\* of the handler were rejected one after the other, and the handler ended.
C11_Witness ==
  \E i \in DOMAIN handlers :
    /\ handlers[i].pc = "done"
    /\ Len(handlers[i].replies) = 3
    /\ handlers[i].replies[2] = [text |-> CMD_ERROR, ok |-> FALSE]
    /\ handlers[i].replies[3] = [text |-> INDEX_APOLOGY, ok |-> FALSE]

\* C12: when the bookkeeping of the user fails for a message, the message is
\* still dispatched to its route: the handler does not answer with the
\* apology of its catch, a registered command is executed, and a message
\* that is no command is submitted to moderation when autoModeration is on.
C12_BookkeepingIsBestEffort ==
  [][messages' # messages =>
       LET h == Latest(handlers')
       IN  h.accepted /\ ~h.stored =>
             /\ ~(h.pc = "reply" /\ h.sending = INDEX_APOLOGY)
             /\ h.priv /\ namesCommand(h.ev) => h.cmd = commandNameOf(h.ev.content, PREFIX)
             /\ ( /\ h.priv /\ ~isCommand(h.ev.content)
                  /\ botSettings.autoModeration
                  /\ trim(Chars(h.ev.content)) # << >> ) => h.modCalls = 1
  ]_vars

\* The sizes updateContext is called with: those of the settings, and 0.
ResizeSizes == ContextSizes \cup { 0 }

\* The context manager, called directly: the exported functions of
\* bot/context are applied to users, contents and sizes in any order, and
\* the dashboard changes the settings.
ManagerNext ==
  \/ \E userId \in Users : GetContext(userId)
  \/ \E userId \in Users, content \in Contents : AddUserMessage(userId, content)
  \/ \E userId \in Users, content \in Contents : AddBotMessage(userId, content)
  \/ \E userId \in Users, size \in ResizeSizes : UpdateContext(userId, size)
  \/ \E userId \in Users : CloseConversation(userId)
  \/ \E settings \in SettingsSpace : UpdateBotSettings(settings)

SpecManager == Init /\ [][ManagerNext]_vars

\* The events that reach moderateMessage.
ModeratedEvents == { ev \in Events : ~ev.bot /\ ~isCommand(ev.content) }

ClassifierOutcomes ==
  { [ok |-> TRUE, results |-> r] : r \in ClassifierResults } \cup
  { [ok |-> FALSE, results |-> ScorerResult(FALSE, Flags(FALSE, FALSE, FALSE), Scores(0, 0, 0))] }

\* The moderator: messages that are no commands arrive, the scorer answers
\* with a result around the thresholds, and the side effects settle.  The
\* handler returns after moderateMessage (index.ts line 65), so no reply
\* action belongs to this component.
ModerationNext ==
  \/ \E ev \in ModeratedEvents : MessageCreate(ev, "full", FALSE)
  \/ \E i \in DOMAIN handlers, o \in ClassifierOutcomes :
       ModerationsCreateDone(i, o.ok, o.results)
  \/ \E i \in DOMAIN handlers, ok \in BOOLEAN : DeleteDone(i, ok)
  \/ \E i \in DOMAIN handlers, ok \in BOOLEAN : TimeoutDone(i, ok)
  \/ \E i \in DOMAIN handlers, ok \in BOOLEAN : AuthorSendDone(i, ok)
  \/ StartBot
  \/ \E l \in logins : LoginResolved(l)

SpecModeration == Init /\ [][ModerationNext]_vars

\* The content of the event has the prefix and a name after it that is not
\* in the registry.
namesUnknownCommand(ev) ==
  /\ startsWith(Chars(ev.content), Chars(PREFIX))
  /\ commandNameOf(ev.content, PREFIX) # << >>
  /\ commandNameOf(ev.content, PREFIX) \notin commands

\* The replies that report an error of a command or of the handler.
ErrorReplies == { CMD_ERROR, INDEX_APOLOGY }

\* C13: a message with the prefix whose name is not in the registry is no
\* error: no error reply is sent for it, no command runs, and the original
\* message is handed to processNaturalLanguage exactly once (its content is
\* the user turn appended to the context).
C13_UnknownCommandResponds ==
  [][/\ \A i \in DOMAIN handlers' :
          LET h == handlers'[i]
          IN  h.accepted /\ h.priv /\ namesUnknownCommand(h.ev) =>
                /\ h.nlp = 1
                /\ h.cmd = << >> /\ h.modCalls = 0
                /\ h.pc = "reply" => h.sending \notin ErrorReplies
                /\ \A j \in DOMAIN h.replies : h.replies[j].text \notin ErrorReplies
     /\ messages' # messages =>
          LET h == Latest(handlers')
              id == getActiveConversationByUserId(conversations', h.ev.author)
          IN  ( /\ h.accepted /\ h.priv /\ namesUnknownCommand(h.ev)
                /\ botSettings.contextAwareness ) =>
                /\ id # 0
                /\ Latest(formatContextForNLP(conversations'[id].context)) =
                     [role |-> "user", content |-> h.ev.content]
  ]_vars

\* A message naming an unknown command was answered by the responder.
C13_Witness ==
  \E i \in DOMAIN handlers :
    /\ namesUnknownCommand(handlers[i].ev)
    /\ handlers[i].pc = "done"
    /\ handlers[i].nlp = 1
    /\ handlers[i].replies = << [text |-> AI_TEXT, ok |-> TRUE] >>

\* The greatest of the category scores of a scorer result.
greatestScore(results) ==
  CHOOSE s \in 0..100 :
    /\ \E c \in Categories : results.category_scores[c] = s
    /\ \A c \in Categories : results.category_scores[c] <= s

\* Some category of the result is flagged and belongs to the high-severity
\* subset.
flaggedHighSeverity(results) ==
  \E c \in Categories : results.categories[c] /\ c \in highSeverityCategories

\* The handlers for which the scorer has answered.
Scored == { i \in DOMAIN handlers : handlers[i].results # << >> }

\* The decision moderateMessage took for handler i: the action it recorded,
\* or none when it returned without one.
decided(i) == handlers[i].action

\* C14: for a scorer result with a flagged category the action is mute if a
\* flagged category is of high severity or maxScore > 0.9, otherwise warn if
\* maxScore > 0.7, otherwise none, where maxScore is the greatest score the
\* classifier computes from the result; the bounds are strict (exactly 0.9
\* without high severity gives warn, exactly 0.7 gives none).
C14_StrictThresholds ==
  \A i \in Scored :
    LET results == handlers[i].results[1]
        m == greatestScore(results)
        high == flaggedHighSeverity(results)
    IN  (\E c \in Categories : results.categories[c]) =>
          /\ decided(i) = "mute" <=> (high \/ m > 90)
          /\ decided(i) = "warn" <=> (~high /\ m > 70 /\ m <= 90)
          /\ decided(i) = "none" <=> (~high /\ m <= 70)
          /\ (~high /\ m = 90) => decided(i) = "warn"
          /\ (~high /\ m = 70) => decided(i) = "none"
          /\ (~high /\ m = 95) => decided(i) = "mute"
          /\ (high /\ m = 50) => decided(i) = "mute"
          /\ (~high /\ m = 75) => decided(i) = "warn"
          /\ (~high /\ m = 50) => decided(i) = "none"

\* A result whose greatest score is exactly 0.9, without a high-severity
\* category, was decided as a warning.
C14_Witness ==
  \E i \in Scored :
    /\ greatestScore(handlers[i].results[1]) = 90
    /\ handlers[i].results[1].categories["harassment"]
    /\ ~flaggedHighSeverity(handlers[i].results[1])
    /\ decided(i) = "warn"

\* The greatest score among the flagged categories of a scorer result (0
\* when no category is flagged).
greatestFlaggedScore(results) ==
  LET flaggedScores ==
        { results.category_scores[c] : c \in { d \in Categories : results.categories[d] } }
  IN  IF flaggedScores = { } THEN 0
      ELSE CHOOSE s \in flaggedScores : \A t \in flaggedScores : t <= s

\* C15: the maxScore of the classifier is the greatest score among the
\* flagged categories only, so the action is decided by the flagged
\* categories and their scores; the score of a category that is not flagged
\* never changes it.
C15_OnlyFlaggedScoresCount ==
  \A i \in Scored :
    LET results == handlers[i].results[1]
        m == greatestFlaggedScore(results)
        high == flaggedHighSeverity(results)
    IN  (\E c \in Categories : results.categories[c]) =>
          decided(i) = IF high \/ m > 90 THEN "mute"
                       ELSE IF m > 70 THEN "warn" ELSE "none"

\* The side effects of executeModerationAction a handler waits for.
SideEffects == { "delete", "member.timeout", "author.send" }

\* C16: when the decision of the classifier is none (no category flagged, or
\* flagged below the thresholds without a high-severity category), no
\* ModerationAction record is created and no side effect (delete, notice,
\* timeout) is issued for the message.
C16_NoneLeavesNoTrace ==
  [][\A i \in DOMAIN handlers :
       ( /\ messages' = messages
         /\ i \in Pending("moderations.create")
         /\ handlers'[i].results # << >> ) =>
           LET results == handlers'[i].results[1]
               none == \/ ~results.flagged
                       \/ /\ ~flaggedHighSeverity(results)
                          /\ greatestScore(results) <= 70
           IN  /\ none => handlers'[i].action = "none"
               /\ handlers'[i].action = "none" =>
                    /\ moderationActions' = moderationActions
                    /\ handlers'[i].pc \notin SideEffects
                    /\ handlers'[i].effects = << >>
                    /\ handlers'[i].pc = "done"
                    /\ handlers'[i].verdict = "none"
  ]_vars

\* A flagged result below the thresholds was decided as none and the handler
\* finished with no record and no side effect.
C16_Witness ==
  \E i \in Scored :
    /\ handlers[i].results[1].flagged
    /\ handlers[i].pc = "done"
    /\ handlers[i].verdict = "none"
    /\ handlers[i].effects = << >>
    /\ moderationActions = << >>

\* The ModerationAction record of the decision handler h took.
recordOf(h) == [userId |-> h.ev.author, type |-> h.action, reason |-> h.reason]

\* Handler i takes the step in which a side effect settles.
EffectSettles(i) ==
  /\ messages' = messages
  /\ handlers[i].pc \in SideEffects
  /\ Len(handlers'[i].effects) = Len(handlers[i].effects) + 1

\* C17: for every warn or mute decision the ModerationAction record is
\* written before any side effect (delete, notice, timeout) is attempted,
\* and it is still present after the side effect fails or cannot be applied.
C17_RecordBeforeEffect ==
  [][/\ \A i \in DOMAIN handlers :
          /\ ( /\ messages' = messages
               /\ i \in Pending("moderations.create")
               /\ handlers'[i].action \in { "warn", "mute" } ) =>
                 /\ moderationActions' = Append(moderationActions, recordOf(handlers'[i]))
                 /\ handlers'[i].effects = << >>
                 /\ handlers'[i].pc = "delete"
          /\ EffectSettles(i) =>
               /\ moderationActions' = moderationActions
               /\ \E n \in DOMAIN moderationActions' :
                    moderationActions'[n] = recordOf(handlers'[i])
     /\ \A n \in DOMAIN moderationActions :
          n \in DOMAIN moderationActions' /\ moderationActions'[n] = moderationActions[n]
     /\ \A i \in DOMAIN handlers' :
          ( handlers'[i].pc \in SideEffects \/ handlers'[i].effects # << >> ) =>
            \E n \in DOMAIN moderationActions' :
              moderationActions'[n] = recordOf(handlers'[i])
  ]_vars

\* A mute was decided for a direct message: the deletion failed, no timeout
\* could be applied, and the record is in the store.
C17_Witness ==
  \E i \in DOMAIN handlers :
    /\ handlers[i].action = "mute"
    /\ ~inGuild(handlers[i].ev)
    /\ handlers[i].pc = "done"
    /\ handlers[i].effects = << [effect |-> "delete", ok |-> FALSE] >>
    /\ moderationActions # << >>
    /\ Latest(moderationActions) = recordOf(handlers[i])

\* The context of the active conversation of a user (empty without one).
windowOf(convs, userId) ==
  LET id == getActiveConversationByUserId(convs, userId)
  IN  IF id = 0 THEN << >> ELSE convs[id].context

\* The role and content of a context message, as formatContextForNLP
\* passes them to the backend.
turn(message) == [role |-> message.role, content |-> message.content]

userTurn(h) == [role |-> "user", content |-> h.ev.content]
assistantTurn(h) == [role |-> "assistant", content |-> h.aiResponse]

\* No other handler for the author of handler i is in flight.
Alone(i) ==
  \A k \in DOMAIN handlers :
    k # i /\ handlers[k].ev.author = handlers[i].ev.author => handlers[k].pc = "done"

\* C18: every call of processNaturalLanguage appends the user's turn to the
\* context before any reply is produced (before the backend call or the
\* fallback matcher runs), also in fallback mode, and appends the
\* assistant's turn only after the reply has been produced and delivered, so
\* the user's turn precedes the assistant's turn of the same call in the
\* window (the appends are those of addUserMessage and addBotMessage, which
\* act while contextAwareness is on).
C18_UserTurnFirst ==
  [][/\ messages' # messages =>
          LET h == Latest(handlers')
          IN  h.nlp = 1 =>
                /\ h.mode = "" /\ h.aiResponse = "" /\ h.attempts = 0
                /\ h.replies = << >>
                /\ h.pc = "sendTyping"
                /\ botSettings.contextAwareness =>
                     /\ windowOf(conversations', h.ev.author) # << >>
                     /\ turn(Latest(windowOf(conversations', h.ev.author))) = userTurn(h)
     /\ \A i \in DOMAIN handlers :
          LET h == handlers[i]
              g == handlers'[i]
              before == windowOf(conversations, h.ev.author)
              after == windowOf(conversations', h.ev.author)
          IN  /\ ( messages' = messages /\ h.pc \in { "sendTyping", "chat.create" }
                   /\ g.pc # h.pc ) =>
                     /\ conversations' = conversations
                     /\ g.pc \in { "chat.create", "reply" }
                     /\ g.pc = "reply" => g.aiResponse # "" /\ g.sending = g.aiResponse
              /\ ( messages' = messages /\ i \in Pending("reply")
                   /\ h.after = "addBotMessage"
                   /\ Len(g.replies) = Len(h.replies) + 1 ) =>
                     IF Latest(g.replies).ok /\ botSettings.contextAwareness
                        /\ getActiveConversationByUserId(conversations, h.ev.author) # 0
                     THEN /\ Latest(g.replies).text = h.aiResponse
                          /\ turn(Latest(after)) = assistantTurn(h)
                          /\ Len(after) >= 2 =>
                               \E n \in 0..Len(before) :
                                 SubSeq(after, 1, Len(after) - 1) =
                                   SubSeq(before, n + 1, Len(before))
                          /\ Alone(i) /\ turn(Latest(before)) = userTurn(h) =>
                               /\ Len(after) >= 2
                               /\ turn(after[Len(after) - 1]) = userTurn(h)
                     ELSE conversations' = conversations
  ]_vars

\* In fallback mode a reply was delivered and the window of the author ends
\* with the user's turn followed by the assistant's turn.
C18_Witness ==
  \E i \in DOMAIN handlers :
    LET h == handlers[i]
        window == windowOf(conversations, h.ev.author)
    IN  /\ h.pc = "done" /\ h.mode = "fallback"
        /\ h.replies = << [text |-> h.aiResponse, ok |-> TRUE] >>
        /\ Len(window) >= 2
        /\ turn(window[Len(window) - 1]) = userTurn(h)
        /\ turn(window[Len(window)]) = assistantTurn(h)

\* The calls of generateResponse answered in fallback mode, and the handlers
\* whose reply was produced in fallback mode.
FallbackCalls ==
  { k \in DOMAIN calls : calls[k].kind = "generateResponse" /\ calls[k].mode = "fallback" }
FallbackHandlers == { i \in DOMAIN handlers : handlers[i].mode = "fallback" }

\* The prompts of the model that contain no keyword of getFallbackResponse.
NoKeywordPrompts == { "xyz", "!foo hi" }

\* C19: in fallback mode the reply is a deterministic total function of the
\* prompt: generateResponse and processNaturalLanguage return the identical
\* non-empty string for the same prompt, whatever the rest of the state is,
\* and a prompt that matches no keyword gets the fixed offline-mode notice.
C19_FallbackIsAFunctionOfThePrompt ==
  /\ \A k \in FallbackCalls :
       /\ calls[k].pc = "done" /\ calls[k].attempts = 0
       /\ calls[k].text # ""
       /\ calls[k].input \in NoKeywordPrompts => calls[k].text = FB_OFFLINE
       /\ calls[k].input = "hello" => calls[k].text = FB_HELLO
       /\ calls[k].input = "tell me a joke" => calls[k].text = FB_JOKE
       /\ \A i \in FallbackHandlers :
            handlers[i].ev.content = calls[k].input => handlers[i].aiResponse = calls[k].text
  /\ \A i \in FallbackHandlers :
       /\ handlers[i].aiResponse # ""
       /\ handlers[i].attempts = 0
       /\ handlers[i].ev.content \in NoKeywordPrompts => handlers[i].aiResponse = FB_OFFLINE
       /\ \A j \in FallbackHandlers :
            handlers[j].ev.content = handlers[i].ev.content =>
              handlers[j].aiResponse = handlers[i].aiResponse

\* In fallback mode generateResponse and a message handler answered the same
\* prompt, which contains no keyword, with the offline-mode notice.
C19_Witness ==
  /\ ~useOpenAI
  /\ \E k \in FallbackCalls, i \in FallbackHandlers :
       /\ calls[k].input = handlers[i].ev.content
       /\ calls[k].text = FB_OFFLINE
       /\ handlers[i].pc = "done"
       /\ handlers[i].replies = << [text |-> FB_OFFLINE, ok |-> TRUE] >>

\* C20: while contextAwareness is false, getContext returns the empty
\* sequence, and neither getContext nor addUserMessage nor addBotMessage
\* creates or modifies a conversation.
C20_AwarenessOffTouchesNothing ==
  [][~botSettings.contextAwareness =>
       /\ messages' # messages /\ Latest(handlers').nlp = 1 =>
            /\ Latest(handlers').context = << >>
            /\ conversations' = conversations
       /\ \A i \in DOMAIN handlers :
            /\ ( messages' = messages /\ i \in Pending("sendTyping")
                 /\ handlers'[i].pc = "chat.create" ) =>
                   ( handlers[i].context = << >> =>
                       handlers'[i].sent = << [role |-> "system", content |-> SYSTEM_PROMPT] >> )
            /\ ( messages' = messages /\ i \in Pending("reply")
                 /\ handlers[i].after = "addBotMessage"
                 /\ Len(handlers'[i].replies) = Len(handlers[i].replies) + 1 ) =>
                   conversations' = conversations
  ]_vars

\* With contextAwareness turned off after a first exchange, a second message
\* of the same user was answered from an empty context and the conversation
\* still holds the first exchange only.
C20_Witness ==
  /\ ~botSettings.contextAwareness
  /\ messages = 2 /\ contextOps = 0
  /\ \E i \in DOMAIN handlers :
       LET h == handlers[i]
           window == windowOf(conversations, h.ev.author)
       IN  /\ h.pc = "done" /\ h.nlp = 1 /\ h.mode = "live"
           /\ Len(h.sent) = 1
           /\ h.replies = << [text |-> h.aiResponse, ok |-> TRUE] >>
           /\ Len(window) = 2
           /\ turn(window[1]) = userTurn(h)
           /\ window[2].role = "assistant"

\* The step is a direct call of the context manager's operation op.
ManagerCall(op) == contextOps' = contextOps + 1 /\ lastOp'.op = op

\* The ids of the active conversations of a user.
activeIds(convs, userId) ==
  { id \in DOMAIN convs : convs[id].userId = userId /\ convs[id].active }

\* C21: closeConversation(userId) marks the active conversation of the user
\* inactive and returns true; it returns false when the user has no active
\* conversation, so a second consecutive close for the same user returns
\* false and changes nothing.
C21_CloseOnce ==
  [][ManagerCall("closeConversation") =>
       LET u == lastOp'.userId
       IN  /\ activeIds(conversations, u) # { } =>
                /\ lastOp'.result = TRUE
                /\ \E id \in activeIds(conversations, u) :
                     conversations' = [conversations EXCEPT ![id].active = FALSE]
           /\ activeIds(conversations, u) = { } =>
                /\ lastOp'.result = FALSE
                /\ conversations' = conversations
           /\ ( lastOp.op = "closeConversation" /\ lastOp.userId = u ) =>
                /\ lastOp'.result = FALSE
                /\ conversations' = conversations
  ]_vars

\* A close returned false for a user whose conversation an earlier close
\* had marked inactive.
C21_Witness ==
  /\ lastOp.op = "closeConversation"
  /\ lastOp.result = FALSE
  /\ activeIds(conversations, lastOp.userId) = { }
  /\ \E id \in DOMAIN conversations :
       /\ conversations[id].userId = lastOp.userId
       /\ ~conversations[id].active
       /\ conversations[id].context # << >>

LimitErrors == { ERR_QUOTA, ERR_RATE }

\* The backend call of handler i settles with a limit error.
HandlerHitsLimit(i) ==
  /\ messages' = messages
  /\ i \in Pending("chat.create")
  /\ handlers'[i].pc # "chat.create"
  /\ handlers'[i].error \in LimitErrors

\* The backend call of the generateResponse or analyzeSentiment call k
\* settles with a limit error.
CallHitsLimit(k) ==
  /\ apiCalls' = apiCalls
  /\ calls[k].pc = "chat.create"
  /\ calls'[k].pc = "done"
  /\ calls'[k].error \in LimitErrors

\* C23: the switch from live to fallback is safe under concurrency: when
\* backend calls that started while useOpenAI was true fail with a quota or
\* rate-limit error one after the other, useOpenAI is false after each of
\* them, each call returns the fallback answer, and clearing the flag again
\* changes nothing else (the store, the other handlers and the other calls
\* are as before).
C23_RaceSafeSwitch ==
  [][/\ \A i \in DOMAIN handlers :
          HandlerHitsLimit(i) =>
            /\ useOpenAI' = FALSE
            /\ handlers'[i].aiResponse = getFallbackResponse(handlers[i].ev.content)
            /\ handlers'[i].pc = "reply" /\ handlers'[i].sending = handlers'[i].aiResponse
            /\ \A j \in DOMAIN handlers : j # i => handlers'[j] = handlers[j]
            /\ calls' = calls
            /\ UNCHANGED << lifecycleVars, storeVars, envVars >>
     /\ \A k \in DOMAIN calls :
          CallHitsLimit(k) =>
            /\ useOpenAI' = FALSE
            /\ calls[k].kind = "generateResponse" =>
                 calls'[k].text = getFallbackResponse(calls[k].input)
            /\ calls[k].kind = "analyzeSentiment" =>
                 calls'[k].sentiment = getFallbackSentiment(calls[k].input)
            /\ \A j \in DOMAIN calls : j # k => calls'[j] = calls[j]
            /\ handlers' = handlers
            /\ UNCHANGED << lifecycleVars, storeVars, envVars >>
     /\ ( \/ \E i \in DOMAIN handlers' : handlers'[i].error \in LimitErrors
          \/ \E k \in DOMAIN calls' : calls'[k].error \in LimitErrors ) => useOpenAI' = FALSE
  ]_vars

\* A message handler and a generateResponse call were in flight together,
\* both started while the backend was on, and both failed with a limit
\* error: the flag is off and both have the fallback answer.
C23_Witness ==
  /\ useOpenAI = FALSE
  /\ \E i \in DOMAIN handlers, k \in DOMAIN calls :
       /\ handlers[i].mode = "live" /\ handlers[i].error \in LimitErrors
       /\ calls[k].mode = "live" /\ calls[k].error \in LimitErrors
       /\ calls[k].kind = "generateResponse"
       /\ calls[k].text = getFallbackResponse(calls[k].input)
       /\ handlers[i].aiResponse = getFallbackResponse(handlers[i].ev.content)

\* The conversations of one user, in the order of the store.
conversationsOf(convs, userId) == SelectSeq(convs, LAMBDA c : c.userId = userId)

\* A context, and the conversations of a store, without the timestamps of
\* the messages.
turns(context) == [j \in DOMAIN context |-> turn(context[j])]
untimed(convs) ==
  [id \in DOMAIN convs |-> [convs[id] EXCEPT !.context = turns(convs[id].context)]]

\* The conversations after the direct call op, made on the store convs.
applied(op, convs) ==
  IF op.op = "getContext" THEN getContext(convs, botSettings, op.userId).convs
  ELSE IF op.op = "addUserMessage"
    THEN addUserMessage(convs, botSettings, op.userId, op.content)
  ELSE IF op.op = "addBotMessage"
    THEN addBotMessage(convs, botSettings, op.userId, op.content)
  ELSE IF op.op = "updateContext" THEN updateContext(convs, op.userId, op.size)
  ELSE closeConversation(convs, op.userId).convs

\* C24: the operations of the context manager for distinct users are
\* independent: a call for user A changes no conversation of another user,
\* and it leaves A's conversations as the same call leaves them on a store
\* that holds A's conversations alone, so interleaving the calls of two
\* users gives each the final state of its own calls (timestamps, which are
\* read from the one clock, aside).
C24_UsersAreIndependent ==
  [][contextOps' = contextOps + 1 =>
       LET op == lastOp'
           alone == conversationsOf(conversations, op.userId)
       IN  /\ \A id \in DOMAIN conversations :
                conversations[id].userId # op.userId =>
                  /\ id \in DOMAIN conversations'
                  /\ conversations'[id] = conversations[id]
           /\ \A id \in DOMAIN conversations' :
                id \notin DOMAIN conversations => conversations'[id].userId = op.userId
           /\ \A v \in Users \ { op.userId } :
                conversationsOf(conversations', v) = conversationsOf(conversations, v)
           /\ untimed(conversationsOf(conversations', op.userId)) =
                untimed(applied(op, alone))
           /\ op.op = "getContext" =>
                turns(op.returned) = turns(getContext(alone, botSettings, op.userId).context)
           /\ op.op = "closeConversation" =>
                op.result = closeConversation(alone, op.userId).result
  ]_vars

\* The calls of two users were interleaved: a message of one user was
\* stored between two messages of the other.
C24_Witness ==
  \E a \in DOMAIN conversations, b \in DOMAIN conversations :
    /\ conversations[a].userId # conversations[b].userId
    /\ Len(conversations[a].context) >= 2
    /\ Len(conversations[b].context) >= 1
    /\ conversations[a].context[1].timestamp < conversations[b].context[1].timestamp
    /\ conversations[b].context[1].timestamp < conversations[a].context[2].timestamp

\* The side effects handler h attempted, in order.
attempted(h) == [j \in DOMAIN h.effects |-> h.effects[j].effect]

\* The handlers whose moderation, decided as action, has finished.
Moderated(action) ==
  { i \in DOMAIN handlers : handlers[i].action = action /\ handlers[i].verdict = action }

\* C25 as the specification states it: on a mute decision the author is
\* timed out for a fixed 10 minutes and is sent a private notice, on a warn
\* decision the author is sent a private notice, and a failed delete is not
\* fatal: the notice and the timeout are still attempted after it.
C25_MuteTimesOutAndNotifies ==
  /\ \A i \in Moderated("mute") :
       /\ \E j \in DOMAIN handlers[i].effects : handlers[i].effects[j].effect = "timeout"
       /\ \E j \in DOMAIN handlers[i].effects : handlers[i].effects[j].effect = "send"
       /\ handlers[i].timeout = TIMEOUT_MS
  /\ \A i \in Moderated("warn") :
       \E j \in DOMAIN handlers[i].effects : handlers[i].effects[j].effect = "send"

\* C25, amended: on a mute decision for a message in a guild the author is
\* timed out for a fixed 10 minutes and, when the timeout succeeded, is sent
\* a private notice; on a mute decision for a direct message neither is
\* attempted.  On a warn decision the author is sent a private notice.  A
\* failed delete is not fatal: the same effects are attempted after it.
C25_EffectsAfterDelete ==
  /\ \A i \in Moderated("warn") :
       attempted(handlers[i]) = << "delete", "send" >>
  /\ \A i \in Moderated("mute") :
       LET h == handlers[i]
       IN  /\ inGuild(h.ev) =>
                /\ Len(h.effects) >= 2
                /\ h.effects[1].effect = "delete"
                /\ h.effects[2].effect = "timeout"
                /\ h.timeout = TIMEOUT_MS
                /\ h.effects[2].ok => attempted(h) = << "delete", "timeout", "send" >>
                /\ ~h.effects[2].ok => attempted(h) = << "delete", "timeout" >>
           /\ ~inGuild(h.ev) => attempted(h) = << "delete" >> /\ h.timeout = 0
  /\ \A i \in DOMAIN handlers :
       handlers[i].pc \in { "member.timeout", "author.send" } =>
         handlers[i].effects # << >> /\ handlers[i].effects[1].effect = "delete"

\* A mute in a guild: the deletion failed, the author was timed out for 10
\* minutes and the notice was sent.
C25_Witness ==
  \E i \in Moderated("mute") :
    /\ inGuild(handlers[i].ev)
    /\ handlers[i].timeout = TIMEOUT_MS
    /\ handlers[i].effects = << [effect |-> "delete", ok |-> FALSE],
                                [effect |-> "timeout", ok |-> TRUE],
                                [effect |-> "send", ok |-> TRUE] >>

\* No message has arrived and no call has been made yet: useOpenAI still has
\* the value the initialisation of bot/nlp gave it.
Untried == messages = 0 /\ apiCalls = 0

\* The keys the validation at start rejects.
RejectedKeys == { "mock-key", "sk-proj-abc" }

\* C26: the initial availability is live exactly when the validation of the
\* API key at start succeeds; when the key is missing or rejected the
\* process starts in fallback and the start does not fail: the bot can be
\* started and answers from the fallback.
C26_InitialAvailability ==
  /\ Untried =>
       /\ useOpenAI <=> (apiKey # "" /\ apiKey \notin RejectedKeys)
       /\ (apiKey = "" \/ apiKey \in RejectedKeys) => useOpenAI = FALSE
       /\ apiKey = "sk-live-abc" => useOpenAI = TRUE
  /\ (starts = 0 /\ messages = 0) => ENABLED StartBot
  /\ (apiKey = "" \/ apiKey \in RejectedKeys) =>
       /\ \A i \in DOMAIN handlers : handlers[i].nlp = 1 => handlers[i].mode \in { "", "fallback" }
       /\ \A k \in DOMAIN calls : calls[k].mode = "fallback"

\* With a rejected key the bot was started, became ready and answered a
\* message from the fallback.
C26_Witness ==
  /\ apiKey \in RejectedKeys
  /\ isReady
  /\ ~useOpenAI
  /\ \E i \in DOMAIN handlers :
       /\ handlers[i].pc = "done" /\ handlers[i].mode = "fallback"
       /\ handlers[i].replies =
            << [text |-> getFallbackResponse(handlers[i].ev.content), ok |-> TRUE] >>

\* C27: with contextAwareness on and no active conversation of the user,
\* addUserMessage and addBotMessage each create an active conversation and
\* append their message to it, so the message is never dropped.
C27_AppendCreatesLazily ==
  [][( /\ ( ManagerCall("addUserMessage") \/ ManagerCall("addBotMessage") )
       /\ botSettings.contextAwareness
       /\ activeIds(conversations, lastOp'.userId) = { } ) =>
         /\ Len(conversations') = Len(conversations) + 1
         /\ \E id \in activeIds(conversations', lastOp'.userId) :
              /\ conversations'[id].context # << >>
              /\ turn(Latest(conversations'[id].context)) =
                   [role |-> IF lastOp'.op = "addUserMessage" THEN "user" ELSE "assistant",
                    content |-> lastOp'.content]
  ]_vars

\* The timestamps do not decrease along a window.
Chronological(window) ==
  \A j \in DOMAIN window, k \in DOMAIN window :
    j < k => window[j].timestamp <= window[k].timestamp

C30_ResizeTruncates ==
  [][ManagerCall("updateContext") =>
       LET u == lastOp'.userId
           limit == 2 * lastOp'.size
           window == windowOf(conversations, u)
           id == CHOOSE i \in activeIds(conversations, u) : TRUE
       IN  /\ Len(conversations') = Len(conversations)
           /\ ( activeIds(conversations, u) = { } \/ Len(window) <= limit ) =>
                conversations' = conversations
           /\ ( activeIds(conversations, u) # { } /\ Len(window) > limit ) =>
                /\ conversations' =
                     [conversations EXCEPT
                        ![id].context = SubSeq(window, Len(window) - limit + 1, Len(window))]
                /\ Len(windowOf(conversations', u)) = limit
  ]_vars

\* The handlers whose typing indicator settles in this step and that go on
\* to call the backend.
Formats(i) ==
  /\ i \in DOMAIN handlers
  /\ i \in DOMAIN handlers'
  /\ handlers[i].pc = "sendTyping"
  /\ handlers'[i].pc = "chat.create"

\* C31: formatting a context of n stored messages yields n + 1 role-tagged
\* messages, the fixed system instruction first and then the stored messages
\* in order; no stored window ever holds a system turn, and the context that
\* getContext hands to the responder has as many messages as the window
\* allows (the lesser of contextSize and the length of the window).
C31_SystemTurnIsNeverStored ==
  [][/\ \A c \in DOMAIN conversations' : \A j \in DOMAIN conversations'[c].context :
          conversations'[c].context[j].role \in { "user", "assistant" }
     /\ \A i \in DOMAIN handlers' :
          Formats(i) =>
            LET context == handlers[i].context
                sent == handlers'[i].sent
            IN  /\ Len(sent) = Len(context) + 1
                /\ sent[1] = [role |-> "system", content |-> SYSTEM_PROMPT]
                /\ \A j \in DOMAIN context : sent[j + 1] = turn(context[j])
     /\ ( messages' = messages + 1 /\ Latest(handlers').pc = "sendTyping"
          /\ botSettings.contextAwareness ) =>
          LET window == windowOf(conversations', Latest(handlers').ev.author)
          IN  Len(Latest(handlers').context) = Min(contextSizeOf(botSettings), Len(window))
  ]_vars

\* A handler sends the backend the system instruction and three stored turns.
C31_Witness ==
  \E i \in DOMAIN handlers :
    /\ handlers[i].pc = "chat.create"
    /\ Len(handlers[i].sent) = 4
    /\ Len(windowOf(conversations, handlers[i].ev.author)) = 3

\* The handlers of a remind command whose arguments are valid.
Reminding(h) ==
  LET args == commandArgsOf(h.ev.content, PREFIX)
  IN  /\ h.cmd = Chars("remind")
      /\ Len(args) >= 2
      /\ ~parseInt(args[1]).nan
      /\ parseInt(args[1]).value \in 1..1440

\* The reminders whose callback has not finished.
Outstanding == { r \in DOMAIN reminders : reminders[r].pc # "done" }

\* C32: a reminder does not block dispatch.  The remind command awaits only
\* its reply and has completed in the step that sets the timer; a message
\* delivered while a reminder is outstanding is accepted and runs up to its
\* reply; and the steps of the reminder's callback, failed deliveries
\* included, change no handler: no reply is sent for them and nothing is
\* thrown into one.
C32_ReminderDoesNotBlock ==
  [][/\ \A i \in DOMAIN handlers' :
          Reminding(handlers'[i]) => handlers'[i].pc \in { "reply", "done" }
     /\ Len(reminders') > Len(reminders) =>
          /\ Len(reminders') = Len(reminders) + 1
          /\ Latest(reminders').pc = "scheduled"
          /\ Latest(reminders').delay >= 60 * 1000
          /\ \E i \in DOMAIN handlers :
               /\ handlers[i].pc = "reply" /\ handlers[i].sending = R_CONFIRM
               /\ handlers'[i].pc = "done"
               /\ handlers'[i].replies = << [text |-> R_CONFIRM, ok |-> TRUE] >>
     /\ ( Len(reminders') = Len(reminders) /\ reminders' # reminders ) =>
          /\ handlers' = handlers
          /\ messages' = messages
     /\ ( Outstanding # { } /\ messages' = messages + 1 ) =>
          /\ reminders' = reminders
          /\ Latest(handlers').accepted
          /\ Latest(handlers').pc = "reply"
  ]_vars

\* A reminder was set, a later message was answered before the timer fired,
\* and then both deliveries of the reminder failed.
C32_Witness ==
  \E r \in DOMAIN reminders :
    /\ reminders[r].pc = "done"
    /\ reminders[r].sends = << [to |-> "author", ok |-> FALSE], [to |-> "channel", ok |-> FALSE] >>
    /\ reminders[r].fired > reminders[r].set
    /\ Latest(handlers).pc = "done"
    /\ Latest(handlers).replies = << [text |-> HELP_ALL, ok |-> TRUE] >>

\* C33: with autoModeration on, processNaturalLanguage is called for a
\* message only after moderateMessage has put that message to the scorer and
\* returned 'none' (autoModeration, once switched off, is not switched on
\* again, so it was on when every handler of the state started).
C33_ModerationBeforeResponse ==
  botSettings.autoModeration =>
    \A i \in DOMAIN handlers :
      handlers[i].nlp > 0 => handlers[i].modCalls = 1 /\ handlers[i].verdict = "none"

\* C34: the list of messages processNaturalLanguage sends to the backend
\* ends with the prompt of the message being answered, as a user turn,
\* whether contextAwareness is on or off.
C34_PromptIsSentLast ==
  \A i \in DOMAIN handlers :
    handlers[i].mode = "live" =>
      /\ handlers[i].sent # << >>
      /\ Latest(handlers[i].sent) = [role |-> "user", content |-> handlers[i].ev.content]

\* C35: once startBot has switched to the reduced-intent client, an event
\* that client delivers while the bot is ready is handled: the handler runs
\* for it, and a DM or a mention is answered with the limited-permissions
\* reply.
C35_ReducedClientIsHandled ==
  [][( /\ messages' = messages + 1
       /\ Latest(handlers').via = "reduced"
       /\ isReady
       /\ ~Latest(handlers').ev.bot ) =>
       /\ Latest(handlers').accepted
       /\ ( Latest(handlers').ev.isMentioned \/ Latest(handlers').ev.isDM ) =>
            /\ Latest(handlers').pc = "reply"
            /\ Latest(handlers').sending = LIMITED_REPLY
  ]_vars

\* The bot was stopped (isReady is false) and its client has logged in
\* again since: no login is pending.
LoggedInAgain == client \in online /\ logins = { } /\ ~isReady

\* C36: when the client has logged in again after stopBot, isReady becomes
\* true again in the end, so that the messages that follow are dispatched,
\* unless the bot is stopped once more.
C36_ReadyAgainAfterRestart == LoggedInAgain ~> ( isReady \/ client \notin online )

\* The updates the tasks of a user have stored, each with its place in the
\* order in which they were stored.
storedBy(userId) ==
  UNION { { tasks[t].appended[n] : n \in DOMAIN tasks[t].appended } :
            t \in { s \in DOMAIN tasks : tasks[s].userId = userId } }

\* C37: when the processNaturalLanguage calls for one user have all
\* returned, whatever way they interleaved at their awaits, every message
\* one of them appended that is among the latest 2 x contextSize appended is
\* in the stored window of the user.
C37_NoAppendedTurnIsLost ==
  \A u \in Users :
    ( \A t \in DOMAIN tasks : tasks[t].userId = u => tasks[t].pc = "done" ) =>
      LET window == windowOf(conversations, u)
          fits == { a \in storedBy(u) :
                      a.order > storedUpdates(tasks) - 2 * contextSizeOf(botSettings) }
      IN  \A a \in fits : \E n \in DOMAIN window : window[n] = a.message

\* The handler awaits message.reply(aiResponse) in processNaturalLanguage.
RepliesWithResponse(h) == h.pc = "reply" /\ h.after = "addBotMessage"

\* The assistant messages a step puts into the store.
NewAssistantTurns(before, after) ==
  LET stored(convs) ==
        UNION { { convs[c].context[j] : j \in DOMAIN convs[c].context } : c \in DOMAIN convs }
  IN  { m \in stored(after) \ stored(before) : m.role = "assistant" }

\* C38: the assistant turn is stored only by the step in which the reply
\* carrying it was delivered; when that reply is rejected the store is left
\* as it is (no assistant turn, the user turn in place) and the apology of
\* processNaturalLanguage is sent next.
C38_AssistantTurnAfterDelivery ==
  [][/\ \A i \in DOMAIN handlers :
          ( i \in DOMAIN handlers' /\ RepliesWithResponse(handlers[i])
            /\ handlers'[i] # handlers[i] /\ ~Latest(handlers'[i].replies).ok ) =>
            /\ conversations' = conversations
            /\ handlers'[i].pc = "reply"
            /\ handlers'[i].sending = NLP_APOLOGY
     /\ \A m \in NewAssistantTurns(conversations, conversations') :
          \E i \in DOMAIN handlers :
            /\ RepliesWithResponse(handlers[i])
            /\ i \in DOMAIN handlers'
            /\ Latest(handlers'[i].replies) = [text |-> m.content, ok |-> TRUE]
            /\ handlers[i].aiResponse = m.content
            /\ m \in { windowOf(conversations', handlers[i].ev.author)[j] :
                         j \in DOMAIN windowOf(conversations', handlers[i].ev.author) }
  ]_vars

\* A response whose reply was rejected: the apology was attempted, the
\* window of the author ends with the user turn of the message.
C38_Witness ==
  \E i \in DOMAIN handlers :
    LET window == windowOf(conversations, handlers[i].ev.author)
    IN  /\ handlers[i].nlp > 0
        /\ Len(handlers[i].replies) = 2
        /\ handlers[i].replies[1] = [text |-> handlers[i].aiResponse, ok |-> FALSE]
        /\ handlers[i].replies[2].text = NLP_APOLOGY
        /\ window # << >>
        /\ turn(Latest(window)) = [role |-> "user", content |-> handlers[i].ev.content]

\* C39: a valid request to POST /api/moderation (answered 201) appends
\* exactly one record to the moderation log, the record of the request.
C39_OneRecordPerRequest ==
  [][( Len(responses') = Len(responses) + 1 /\ Latest(responses').status = 201 ) =>
       moderationActions' = Append(moderationActions, Latest(responses').action)
  ]_vars

=============================================================================
